---- MODULE Spec2Model ----
(***************************************************************************)
(* Video controller of rov-host: the parent SlaveModel (polling/recording  *)
(* state and the toggle buttons), the SlaveVideoModel message handlers,    *)
(* the recording Branch attach/detach of slave/video.rs, and the chain of  *)
(* Promise/Future resolutions and the teardown timer that StopPipeline     *)
(* arms.                                                                   *)
(*                                                                         *)
(* Threads.  Handlers, Promise receivers and the timer all run on the glib *)
(* main loop, one at a time: each is one action.  Pad probes, pipeline     *)
(* state changes and the appsink callback run on GStreamer threads: each   *)
(* is an action that may interleave anywhere between two main-loop         *)
(* dispatches.                                                             *)
(*                                                                         *)
(* Pipeline lifetime.  The completion and timer closures of StopPipeline   *)
(* capture the pipeline weakly (clone!(@weak pipeline ...)); the handler   *)
(* drops its own strong reference when it returns.  A GStreamer pipeline   *)
(* that has not been set to Null is kept alive by the framework (its bus   *)
(* holds messages whose source is the pipeline until the bus is flushed on *)
(* the way to Null), so the weak reference upgrades until the pipeline has *)
(* been set to Null and no closure of the program holds it strongly        *)
(* (Alive).                                                                *)
(***************************************************************************)
EXTENDS Integers, Sequences, FiniteSets, TLC

\* Bounds of the model.
MaxPipes == 2        \* pipelines built by StartPipeline in one behaviour
MaxBranches == 2     \* recording branches attached in one behaviour
MaxClicks == 4       \* button clicks in one behaviour
MaxSends == 3        \* messages handed to the video component alone in one behaviour
MaxFailures == 1     \* injected framework failures in one behaviour
MaxFutures == 3      \* input futures handed to Future::sequence
MaxObserved == 2     \* input futures that observer threads register on
MaxObservers == 2    \* threads registering an observer with Future::for_each
MaxRaces == 1        \* second entries of an EOS probe callback in one behaviour
MaxSamples == 2      \* samples delivered to the appsink in one behaviour
MaxUpdates == 1      \* ConfigUpdated messages in one behaviour
MaxBuilds == 2       \* StartPipeline messages handled by the builder in one behaviour
MaxAttaches == 1     \* StartRecord messages handled by the builder in one behaviour
MaxPads == 2         \* pads the source adds to one pipeline

PipeIds == 1..MaxPipes
BranchIds == 1..MaxBranches

\* Option<bool> of SlaveModel::polling / SlaveModel::recording
SomeTrue == "Some(true)"
SomeFalse == "Some(false)"
None == "None"

VARIABLES
    polling,         \* SlaveModel::polling
    recording,       \* SlaveModel::recording
    sync_recording,  \* SlaveModel::sync_recording
    parentQ,         \* channel of SlaveMsg to SlaveModel::update
    videoQ,          \* channel of SlaveVideoMsg to SlaveVideoModel::update
    pipeline,        \* SlaveVideoModel::pipeline (0 = None, else a pipeline id)
    record_handle,   \* SlaveVideoModel::record_handle (0 = None, else a branch id)
    pixbuf,          \* SlaveVideoModel::pixbuf is Some
    pipes,           \* the gst::Pipeline objects built so far
    branches,        \* the recording branches built so far
    clicks,          \* number of button clicks so far
    failures,        \* number of injected failures so far
    crashed,         \* "no", or the assertion / unwrap that panicked
    futures,         \* async_glib: the Future cells and their Promise channels
    promises,        \* the Mutex<Option<Promise>> a probe closure owns, per input
    probe,           \* the EOS pad probe resolving each input future
    observers,       \* threads calling Future::for_each
    seq,             \* Future::sequence: its `seq` vector and its iterator
    dispatching,     \* cell whose receiver is inside Future::success (0: none)
    resolution,      \* the input cells in the order their state was assigned
    frame_size,      \* attach_pipeline_callback: Arc<Mutex<Option<(i32, i32)>>>
    config,          \* Arc<Mutex<SlaveConfigModel>>: its lock and video_algorithms
    callback,        \* the new_sample closure on the delivery thread
    control,         \* the control loop handling ConfigUpdated
    delivered,       \* what new_sample has returned and sent so far
    created,         \* the last StartPipeline: what create_pipeline returned
    topology,        \* elements and links of the pipeline the component holds
    source_thread,   \* rtspsrc's thread running the pad-added closure
    attached,        \* the recording branch: record_handle and its drain
    mutation         \* which thread performed which kind of topology change

libVars == <<futures, promises, probe, observers, seq, dispatching, resolution>>
frameVars == <<frame_size, config, callback, control, delivered>>
buildVars == <<created, topology, source_thread, attached, mutation>>

vars == <<polling, recording, sync_recording, parentQ, videoQ, pipeline,
          record_handle, pixbuf, pipes, branches, clicks, failures, crashed,
          libVars, frameVars, buildVars>>

coreVars == <<polling, recording, sync_recording, parentQ, videoQ, pipeline,
              record_handle, pixbuf, pipes, branches, clicks, failures>>

parentVars == <<polling, recording, sync_recording>>
videoVars == <<pipeline, record_handle, pixbuf>>
gstVars == <<pipes, branches>>
envVars == <<clicks, failures>>

\* A pipeline that StartPipeline has not built yet.
NoPipe ==
    [st |-> "none",      \* "none", "starting", "playing", "null"
     tee |-> 0,          \* live src pads of tee_source
     stray |-> 0,        \* branch elements a failed attach left in the pipeline
     stopped |-> FALSE,  \* StopPipeline has been processed for it
     rec |-> 0,          \* branch whose future StopPipeline pushed first (0: not recording)
     mainEos |-> "no",   \* "no", "sent", "observed", "resolved"
     seq |-> "none",     \* Future::sequence: "none", "waitR", "waitM", "hops", "done"
     hops |-> 0,         \* promise channel messages left before the sequence resolves
     timer |-> "none",   \* "none", "armed", "fired"
     forced |-> FALSE,   \* the timer closure ran with the pipeline alive
     eosAtTimer |-> "no",\* mainEos when the timer fired
     idle |-> 0,         \* PollingChanged(false) sent for this pipeline
     nulls |-> 0,        \* set_state(Null) calls on this pipeline
     toasts |-> 0,       \* ShowToastMessage sent for this pipeline
     recOff |-> 0]       \* RecordingChanged(false) sent by StopPipeline's own paths

\* A branch that StartRecord has not built yet.
NoBranch ==
    [pipe |-> 0,         \* pipeline it was attached to
     st |-> "none",      \* "none", "attached", "draining", "observed",
                         \* "removed", "notified", "resolved"
     promise |-> FALSE,  \* StopRecord carried Some(promise)
     inPipe |-> FALSE,   \* its elements are in the pipeline
     probe |-> "none",   \* tail EOS probe: "none", "installed", "removed"
     eos |-> FALSE]      \* EOS was injected at its first sink pad

----------------------------------------------------------------------------
\* async_glib.rs: the cells.  Cells 1..MaxFutures are the input futures, each
\* resolved by an EOS probe that owns its Promise in a Mutex<Option<..>>;
\* cell MaxFutures + k is the future that the k-th step of Future::sequence
\* returns (flat_map's promise, or From<Vec>'s for the exhausted iterator).
\* An Option is a sequence of length 0 (None) or 1 (Some).

InputIds == 1..MaxFutures
CellIds == 1..(2 * MaxFutures + 1)
ObservedIds == {i \in InputIds : i <= MaxObserved}
ObserverIds == 1..MaxObservers

\* Future::new and Promise::new: no state, no callbacks, the receiver attached
\* to the main context and nothing sent.
NewFuture ==
    [state |-> <<>>,       \* Future::state
     callbacks |-> <<>>,   \* Future::callbacks
     channel |-> <<>>,     \* values sent on the Promise's Sender, not yet dispatched
     receiver |-> TRUE,    \* the receiver source is attached
     lock |-> 0,           \* observer thread holding the state mutex (0: free)
     sent |-> 0,           \* Promise::success calls that sent
     assigned |-> 0]       \* assignments of Future::state

NewProbe == [installed |-> TRUE, inside |-> 0, entries |-> 0]

NewObserver ==
    [pc |-> "idle", cell |-> 0, seen |-> <<>>, calls |-> 0, got |-> <<>>,
     inner |-> 0]    \* calls of the observer that this observer's closure registered

NewSequence == [called |-> FALSE, n |-> 0, vec |-> <<>>, taken |-> FALSE, pulled |-> 0]

LibInit ==
    /\ futures = [c \in CellIds |-> NewFuture]
    /\ promises = [i \in InputIds |-> "Some"]
    /\ probe = [i \in InputIds |-> NewProbe]
    /\ observers = [o \in ObserverIds |-> NewObserver]
    /\ seq = NewSequence
    /\ dispatching = 0
    /\ resolution = <<>>

\* slave/video.rs attach_pipeline_callback: the appsink callbacks of each
\* pipeline and the Config they share with the control loop.

NewCallback == [attached |-> FALSE, pc |-> "idle", panicked |-> FALSE]

NewDelivered ==
    [samples |-> 0,        \* new_sample calls that returned
     frames |-> 0,         \* Mats sent to the display channel
     caps |-> FALSE,       \* a caps event carrying width and height was processed
     known |-> FALSE,      \* the last call found dimensions cached
     case |-> "none",      \* what the last call met
     flow |-> "none",      \* what the last call returned
     panics |-> 0,         \* calls that panicked
     sample |-> <<>>,      \* (width, height) of the sample, if the last call forwarded
                           \* it unprocessed and no caps have arrived since
     plain |-> <<>>]       \* Some(Mat) that was built from it and sent

FrameInit ==
    /\ frame_size = [p \in PipeIds |-> <<>>]
    /\ config = [lock |-> 0, poisoned |-> FALSE, video_algorithms |-> <<>>]
    /\ callback = [p \in PipeIds |-> NewCallback]
    /\ control = [pc |-> "idle", updates |-> 0, pending |-> <<>>]
    /\ delivered = [p \in PipeIds |-> NewDelivered]

\* gst::Pipeline::new(None): no element, no link.  unowned collects the links
\* made while one of their elements was not in the pipeline.
NoGraph ==
    [elements |-> {}, links |-> {}, unowned |-> {}, pad_added |-> FALSE,
     pads |-> {}]    \* <<media, n>>: the pads the source has added

NewCreated ==
    [calls |-> 0,        \* StartPipeline messages handled
     ok |-> FALSE,       \* create_pipeline returned Ok
     failed |-> 0,       \* the step of create_pipeline that failed (0: none)
     state |-> "none",   \* set_state(Playing): "none" (not called), "ok", "state_err"
     sent |-> <<>>,      \* what the handler sent to SlaveModel
     graph |-> NoGraph]  \* the pipeline create_pipeline worked on

NewAttached ==
    [calls |-> 0,        \* StartRecord messages handled
     handle |-> FALSE,   \* record_handle is Some
     failed |-> 0,       \* the step of the attach that failed (0: none)
     st |-> "none"]      \* "none", "attached", "draining", "observed", "removed"

BuildInit ==
    /\ created = NewCreated
    /\ topology = <<>>
    /\ source_thread = "idle"
    /\ attached = NewAttached
    /\ mutation = [by |-> {}, concurrent |-> FALSE]

CoreInit ==
    /\ polling = SomeFalse
    /\ recording = SomeFalse
    /\ sync_recording = FALSE
    /\ parentQ = <<>>
    /\ videoQ = <<>>
    /\ pipeline = 0
    /\ record_handle = 0
    /\ pixbuf = FALSE
    /\ pipes = [p \in PipeIds |-> NoPipe]
    /\ branches = [b \in BranchIds |-> NoBranch]
    /\ clicks = 0
    /\ failures = 0
    /\ crashed = "no"

Init == CoreInit /\ LibInit /\ FrameInit /\ BuildInit

Built == {p \in PipeIds : pipes[p].st # "none"}
Attached == {b \in BranchIds : branches[b].st # "none"}

\* clone!(@weak pipeline): the upgrade succeeds while the object exists.
\* Strong references of the program: SlaveVideoModel::pipeline and the
\* clone!(@strong pipeline) of the detach continuation until it has run.
Alive(p) ==
    /\ pipes[p].st # "none"
    /\ \/ pipes[p].st # "null"
       \/ pipeline = p
       \/ \E b \in BranchIds :
            branches[b].pipe = p /\ branches[b].st \in {"draining", "observed"}

----------------------------------------------------------------------------
\* The buttons (slave/mod.rs view!) and SlaveModel::update

RecordButtonSensitive ==
    ~sync_recording /\ recording # None /\ polling = SomeTrue

PollingButtonSensitive ==
    recording # None /\ polling # None /\ ~sync_recording

ClickToggleRecord ==
    /\ crashed = "no"
    /\ clicks < MaxClicks
    /\ RecordButtonSensitive
    /\ parentQ' = Append(parentQ, "ToggleRecord")
    /\ clicks' = clicks + 1
    /\ UNCHANGED <<parentVars, videoQ, videoVars, gstVars, failures, crashed>>
    /\ UNCHANGED <<libVars, frameVars, buildVars>>

ClickTogglePolling ==
    /\ crashed = "no"
    /\ clicks < MaxClicks
    /\ PollingButtonSensitive
    /\ parentQ' = Append(parentQ, "TogglePolling")
    /\ clicks' = clicks + 1
    /\ UNCHANGED <<parentVars, videoQ, videoVars, gstVars, failures, crashed>>
    /\ UNCHANGED <<libVars, frameVars, buildVars>>

ParentHead(m) == crashed = "no" /\ parentQ # <<>> /\ Head(parentQ) = m

SlaveTogglePolling ==
    /\ ParentHead("TogglePolling")
    /\ parentQ' = Tail(parentQ)
    /\ IF polling = SomeTrue
         THEN /\ videoQ' = Append(videoQ, "StopPipeline")
              /\ polling' = None
         ELSE IF polling = SomeFalse
         THEN /\ videoQ' = Append(videoQ, "StartPipeline")
              /\ polling' = None
         ELSE UNCHANGED <<videoQ, polling>>
    /\ UNCHANGED <<recording, sync_recording, videoVars, gstVars, envVars, crashed>>
    /\ UNCHANGED <<libVars, frameVars, buildVars>>

SlaveToggleRecord ==
    /\ ParentHead("ToggleRecord")
    /\ parentQ' = Tail(parentQ)
    /\ videoQ' = Append(videoQ, IF record_handle = 0 THEN "StartRecord" ELSE "StopRecord")
    /\ recording' = None
    /\ UNCHANGED <<polling, sync_recording, videoVars, gstVars, envVars, crashed>>
    /\ UNCHANGED <<libVars, frameVars, buildVars>>

SlavePollingChanged ==
    /\ \E v \in BOOLEAN :
         /\ ParentHead(IF v THEN "PollingChanged(true)" ELSE "PollingChanged(false)")
         /\ polling' = IF v THEN SomeTrue ELSE SomeFalse
    /\ parentQ' = Tail(parentQ)
    /\ UNCHANGED <<recording, sync_recording, videoQ, videoVars, gstVars, envVars, crashed>>
    /\ UNCHANGED <<libVars, frameVars, buildVars>>

SlaveRecordingChanged ==
    /\ \E v \in BOOLEAN :
         /\ ParentHead(IF v THEN "RecordingChanged(true)" ELSE "RecordingChanged(false)")
         /\ sync_recording' = IF v THEN (IF recording = SomeFalse THEN TRUE ELSE sync_recording)
                                   ELSE FALSE
         /\ recording' = IF v THEN SomeTrue ELSE SomeFalse
    /\ parentQ' = Tail(parentQ)
    /\ UNCHANGED <<polling, videoQ, videoVars, gstVars, envVars, crashed>>
    /\ UNCHANGED <<libVars, frameVars, buildVars>>

\* ErrorMessage opens a dialog, ShowToastMessage queues a toast: neither
\* touches polling, recording or the video component.
SlaveShowMessage ==
    /\ \/ ParentHead("ErrorMessage")
       \/ ParentHead("ShowToastMessage")
    /\ parentQ' = Tail(parentQ)
    /\ UNCHANGED <<parentVars, videoQ, videoVars, gstVars, envVars, crashed>>
    /\ UNCHANGED <<libVars, frameVars, buildVars>>

----------------------------------------------------------------------------
\* slave/video.rs: attach and detach of the recording branch

\* gst_record_elements: queue, h265parse, matroskamux, filesink
BranchLen == 4

\* Results of StartRecord's gst_record_elements / connect_elements_to_pipeline:
\* success, or the step that returned Err.
AttachOutcomes ==
    {"ok", "make", "add_first", "request_pad", "add_rest", "link", "link_tee"}

\* Elements of the branch that are in the pipeline when connect returns.
AttachAdded(o) ==
    CASE o = "ok" -> BranchLen
      [] o = "make" -> 0
      [] o = "add_first" -> 0
      [] o = "request_pad" -> 1
      [] o = "add_rest" -> 1
      [] o = "link" -> 2
      [] o = "link_tee" -> BranchLen

\* Whether output_tee.request_pad_simple("src_%u") has returned a pad.
AttachRequestedPad(o) == o \in {"ok", "add_rest", "link", "link_tee"}

\* output_tee.request_pad_simple("src_%u")
TeeAfterRequest(n) == n + 1

\* Mutant: the pad is unlinked but never removed from the tee.
TeeAfterRemove_Keep(n) == n

\* output_tee.remove_pad(teepad)
TeeAfterRemove(n) == n - 1

\* connect_elements_to_pipeline returning Ok: the branch as recorded in
\* record_handle.
ConnectedBranch(p) ==
    [NoBranch EXCEPT !.pipe = p, !.st = "attached", !.inPipe = TRUE]

\* Mutant: the elements are removed at once instead of in the continuation.
DisconnectedBranch_RemoveNow(br, promise) ==
    [br EXCEPT !.st = "draining", !.probe = "installed", !.eos = TRUE,
               !.promise = promise, !.inPipe = FALSE]

\* disconnect_elements_to_pipeline up to its return, and the for_each that
\* StopRecord registers on the returned future: the pad is unlinked and
\* removed from the tee, the probe is installed on the last sink pad, EOS is
\* sent into the first sink pad; the elements stay in the pipeline.
DisconnectedBranch(br, promise) ==
    [br EXCEPT !.st = "draining", !.probe = "installed", !.eos = TRUE,
               !.promise = promise]

\* Mutant: the continuation resolves the mapped future without removing the
\* elements.
RemovedBranch_StillInPipe(br) ==
    [br EXCEPT !.st = "removed"]

\* The continuation given to future.map in disconnect_elements_to_pipeline:
\* pipeline.remove_many(elements) and set_state(Null) on each element.
RemovedBranch(br) ==
    [br EXCEPT !.st = "removed", !.inPipe = FALSE]

\* create_pipeline returning Ok followed by set_state(Playing) returning Ok:
\* tee_source has the one src pad that feeds the decoder queue.
PlayingPipe ==
    [NoPipe EXCEPT !.st = "starting", !.tee = 1]

----------------------------------------------------------------------------
\* SlaveVideoModel::update

VideoHead(m) == crashed = "no" /\ videoQ # <<>> /\ Head(videoQ) = m

\* Mutant: the precondition is not asserted and the call returns quietly.
AssertFailed_Ignored(name) == crashed' = crashed

\* assert!(...) failing: the handler panics and the process goes down.
AssertFailed(name) == crashed' = name

FreePipe == Cardinality(Built) < MaxPipes
FreeBranch == Cardinality(Attached) < MaxBranches

\* A failure may be injected while the budget lasts, and is the only outcome
\* left once the model has no further object to hand out.
MayFail(free) == failures < MaxFailures \/ ~free

VideoSetPixbuf ==
    /\ VideoHead("SetPixbuf")
    /\ videoQ' = Tail(videoQ)
    /\ parentQ' = IF ~pixbuf THEN Append(parentQ, "PollingChanged(true)") ELSE parentQ
    /\ pixbuf' = TRUE
    /\ UNCHANGED <<parentVars, pipeline, record_handle, gstVars, envVars, crashed>>
    /\ UNCHANGED <<libVars, frameVars, buildVars>>

VideoStartRecord ==
    /\ VideoHead("StartRecord")
    /\ videoQ' = Tail(videoQ)
    /\ IF pipeline = 0
         THEN UNCHANGED <<parentQ, record_handle, gstVars, failures>>
         ELSE \E o \in AttachOutcomes :
                LET b == Cardinality(Attached) + 1
                    p == pipeline
                IN  IF o = "ok"
                      THEN /\ FreeBranch
                           /\ branches' = [branches EXCEPT ![b] = ConnectedBranch(p)]
                           /\ pipes' = [pipes EXCEPT ![p].tee = TeeAfterRequest(@)]
                           /\ record_handle' = b
                           /\ parentQ' = Append(parentQ, "RecordingChanged(true)")
                           /\ UNCHANGED failures
                      ELSE /\ MayFail(FreeBranch)
                           /\ failures' = failures + 1
                           /\ pipes' = [pipes EXCEPT
                                  ![p].tee = IF AttachRequestedPad(o)
                                               THEN TeeAfterRequest(@) ELSE @,
                                  ![p].stray = @ + AttachAdded(o)]
                           /\ parentQ' = parentQ \o <<"ErrorMessage", "RecordingChanged(false)">>
                           /\ UNCHANGED <<branches, record_handle>>
    /\ UNCHANGED <<parentVars, pipeline, pixbuf, clicks, crashed>>
    /\ UNCHANGED <<libVars, frameVars, buildVars>>

\* The StopRecord arm, as a change of the branches and of the tee, for the
\* message from the queue (promise = None) and for the call StopPipeline
\* makes (promise = Some).
StopRecordBranches(promise) ==
    IF pipeline # 0 /\ record_handle # 0
      THEN [branches EXCEPT ![record_handle] = DisconnectedBranch(@, promise)]
      ELSE branches

StopRecordPipes ==
    IF pipeline # 0 /\ record_handle # 0
      THEN [pipes EXCEPT ![pipeline].tee = TeeAfterRemove(@)]
      ELSE pipes

\* Mutant: set_record_handle(None) is missing.
StopRecordHandle_Keep == record_handle

StopRecordHandle == IF pipeline # 0 THEN 0 ELSE record_handle

VideoStopRecord ==
    /\ VideoHead("StopRecord")
    /\ videoQ' = Tail(videoQ)
    /\ branches' = StopRecordBranches(FALSE)
    /\ pipes' = StopRecordPipes
    /\ record_handle' = StopRecordHandle
    /\ UNCHANGED <<parentVars, parentQ, pipeline, pixbuf, envVars, crashed>>
    /\ UNCHANGED <<libVars, frameVars, buildVars>>

StartOutcomes == {"ok", "build_err", "state_err"}

VideoStartPipeline ==
    /\ VideoHead("StartPipeline")
    /\ videoQ' = Tail(videoQ)
    /\ IF pipeline # 0
         THEN /\ AssertFailed("assert_start")
              /\ UNCHANGED <<parentQ, pipeline, pipes, failures>>
         ELSE /\ UNCHANGED crashed
              /\ \E o \in StartOutcomes :
                   LET p == Cardinality(Built) + 1
                   IN  IF o = "ok"
                         THEN /\ FreePipe
                              /\ pipes' = [pipes EXCEPT ![p] = PlayingPipe]
                              /\ pipeline' = p
                              /\ parentQ' = Append(parentQ, "PollingChanged(true)")
                              /\ UNCHANGED failures
                         ELSE /\ MayFail(FreePipe)
                              /\ failures' = failures + 1
                              /\ parentQ' = parentQ \o <<"ErrorMessage", "PollingChanged(false)">>
                              /\ UNCHANGED <<pipeline, pipes>>
    /\ UNCHANGED <<parentVars, record_handle, pixbuf, branches, clicks>>
    /\ UNCHANGED <<libVars, frameVars, buildVars>>

\* Channel messages between the resolution of the last input future and the
\* resolution of the future Future::sequence returned: the promise of
\* Future::from(vec) and one flat_map promise per input future.
SequenceHops(n) == n + 1

\* Mutant: the recording future is not pushed, the sequence waits for the
\* main EOS only.
StopAwaiting_SkipRecordFuture(pp, b) ==
    [pp EXCEPT !.stopped = TRUE, !.rec = b, !.mainEos = "sent",
               !.seq = "waitM", !.timer = "armed"]

\* The true arm of `current_state() == Playing && send_event(Eos)`: the main
\* EOS is in the pipeline, Future::sequence(futures) has registered on the
\* first future and carries the completion closure, the timer is armed.
StopAwaiting(pp, b) ==
    [pp EXCEPT !.stopped = TRUE, !.rec = b, !.mainEos = "sent",
               !.seq = IF b # 0 THEN "waitR" ELSE "waitM",
               !.timer = "armed"]

\* Mutant: the else arm arms the teardown timer as the true arm does.
StopImmediate_ArmTimer(pp, b) ==
    [pp EXCEPT !.stopped = TRUE, !.rec = b, !.st = "null", !.timer = "armed",
               !.idle = @ + 1, !.recOff = @ + 1, !.nulls = @ + 1]

\* The else arm: PollingChanged(false), RecordingChanged(false) and
\* set_state(Null) within the call.
StopImmediate(pp, b) ==
    [pp EXCEPT !.stopped = TRUE, !.rec = b, !.st = "null",
               !.idle = @ + 1, !.recOff = @ + 1, !.nulls = @ + 1]

VideoStopPipeline ==
    /\ VideoHead("StopPipeline")
    /\ videoQ' = Tail(videoQ)
    /\ IF pipeline = 0
         THEN /\ AssertFailed("assert_stop")
              /\ UNCHANGED <<parentQ, pipeline, record_handle, gstVars>>
         ELSE LET p == pipeline
                  b == record_handle
              IN  /\ UNCHANGED crashed
                  /\ record_handle' = StopRecordHandle
                  /\ pipeline' = 0
                  /\ \E sent \in (IF pipes[p].st = "playing" THEN BOOLEAN ELSE {FALSE}) :
                       IF sent
                         THEN /\ branches' = StopRecordBranches(TRUE)
                              /\ pipes' = [StopRecordPipes EXCEPT ![p] = StopAwaiting(@, b)]
                              /\ UNCHANGED parentQ
                         ELSE \* the branch EOS may pass the tail probe on its
                              \* streaming thread before set_state(Null) is reached
                              /\ \E seen \in (IF b # 0 THEN BOOLEAN ELSE {FALSE}) :
                                   branches' =
                                     IF seen
                                       THEN [StopRecordBranches(TRUE) EXCEPT
                                               ![b].st = "observed", ![b].probe = "removed"]
                                       ELSE StopRecordBranches(TRUE)
                              /\ pipes' = [StopRecordPipes EXCEPT ![p] = StopImmediate(@, b)]
                              /\ parentQ' = parentQ \o
                                     <<"PollingChanged(false)", "RecordingChanged(false)">>
    /\ UNCHANGED <<parentVars, pixbuf, envVars>>
    /\ UNCHANGED <<libVars, frameVars, buildVars>>

----------------------------------------------------------------------------
\* GStreamer threads

\* The pipeline completes its asynchronous change to Playing.
StateReached(p) ==
    /\ crashed = "no"
    /\ pipes[p].st = "starting"
    /\ pipes' = [pipes EXCEPT ![p].st = "playing"]
    /\ UNCHANGED <<parentVars, parentQ, videoQ, videoVars, branches, envVars, crashed>>
    /\ UNCHANGED <<libVars, frameVars, buildVars>>

\* appsink new_sample: the frame goes through the Mat channel and its
\* receiver sends SetPixbuf.  Only a frame that finds pixbuf None changes
\* anything, so one pending SetPixbuf is kept at a time.
NewSample(p) ==
    /\ crashed = "no"
    /\ pipes[p].st \in {"starting", "playing"}
    /\ ~pixbuf
    /\ \A i \in 1..Len(videoQ) : videoQ[i] # "SetPixbuf"
    /\ videoQ' = Append(videoQ, "SetPixbuf")
    /\ UNCHANGED <<parentVars, parentQ, videoVars, gstVars, envVars, crashed>>
    /\ UNCHANGED <<libVars, frameVars, buildVars>>

\* The EOS injected into the branch reaches the last element's sink pad: the
\* probe takes the promise, calls success (a message to the promise's
\* channel) and removes itself.  Elements of a pipeline that has been set to
\* Null pass no events.
TailEosObserved(b) ==
    /\ crashed = "no"
    /\ branches[b].st = "draining"
    /\ branches[b].probe = "installed" /\ branches[b].eos
    /\ pipes[branches[b].pipe].st # "null"
    /\ branches' = [branches EXCEPT ![b].st = "observed", ![b].probe = "removed"]
    /\ UNCHANGED <<parentVars, parentQ, videoQ, videoVars, pipes, envVars, crashed>>
    /\ UNCHANGED <<libVars, frameVars, buildVars>>

\* The main EOS reaches the sink pad of "display": the probe calls success.
MainEosObserved(p) ==
    /\ crashed = "no"
    /\ pipes[p].mainEos = "sent"
    /\ pipes[p].st # "null"
    /\ pipes' = [pipes EXCEPT ![p].mainEos = "observed"]
    /\ UNCHANGED <<parentVars, parentQ, videoQ, videoVars, branches, envVars, crashed>>
    /\ UNCHANGED <<libVars, frameVars, buildVars>>

----------------------------------------------------------------------------
\* Main loop: Promise receivers (Promise::new) running Future::success and
\* the callbacks registered on the future, and the teardown timer

\* The detach promise: the map continuation removes the branch's elements
\* and sends the result to the promise of the mapped future.
DetachResolved(b) ==
    /\ crashed = "no"
    /\ branches[b].st = "observed"
    /\ branches' = [branches EXCEPT ![b] = RemovedBranch(@)]
    /\ UNCHANGED <<parentVars, parentQ, videoQ, videoVars, pipes, envVars, crashed>>
    /\ UNCHANGED <<libVars, frameVars, buildVars>>

\* The mapped future: StopRecord's for_each closure sends
\* RecordingChanged(false) and calls success on the promise it was given.
DetachNotified(b) ==
    /\ crashed = "no"
    /\ branches[b].st = "removed"
    /\ branches' = [branches EXCEPT ![b].st = "notified"]
    /\ parentQ' = Append(parentQ, "RecordingChanged(false)")
    /\ UNCHANGED <<parentVars, videoQ, videoVars, pipes, envVars, crashed>>
    /\ UNCHANGED <<libVars, frameVars, buildVars>>

\* flat_map's callback on an input future of Future::sequence: the value is
\* pushed and the next future is pulled; when the iterator is exhausted the
\* collected vector is turned into a future (a promise message).
SequenceAfter(pp, nextResolved) ==
    IF nextResolved
      THEN [pp EXCEPT !.seq = "hops",
                      !.hops = SequenceHops(IF pp.rec # 0 THEN 2 ELSE 1)]
      ELSE [pp EXCEPT !.seq = "waitM"]

\* The promise StopPipeline handed to StopRecord: the sequence moves on to
\* the main EOS future, at once if that one is resolved already.
RecordPromiseResolved(b) ==
    /\ crashed = "no"
    /\ branches[b].st = "notified" /\ branches[b].promise
    /\ branches' = [branches EXCEPT ![b].st = "resolved"]
    /\ LET p == branches[b].pipe
       IN  pipes' = IF pipes[p].seq = "waitR"
                      THEN [pipes EXCEPT ![p] = SequenceAfter(@, @.mainEos = "resolved")]
                      ELSE pipes
    /\ UNCHANGED <<parentVars, parentQ, videoQ, videoVars, envVars, crashed>>
    /\ UNCHANGED <<libVars, frameVars, buildVars>>

\* The promise of the display probe.
MainEosResolved(p) ==
    /\ crashed = "no"
    /\ pipes[p].mainEos = "observed"
    /\ pipes' = [pipes EXCEPT ![p] =
           IF @.seq = "waitM"
             THEN SequenceAfter([@ EXCEPT !.mainEos = "resolved"], TRUE)
             ELSE [@ EXCEPT !.mainEos = "resolved"]]
    /\ UNCHANGED <<parentVars, parentQ, videoQ, videoVars, branches, envVars, crashed>>
    /\ UNCHANGED <<libVars, frameVars, buildVars>>

\* A promise inside Future::sequence that is not the last one.
SequenceHop(p) ==
    /\ crashed = "no"
    /\ pipes[p].seq = "hops" /\ pipes[p].hops > 1
    /\ pipes' = [pipes EXCEPT ![p].hops = @ - 1]
    /\ UNCHANGED <<parentVars, parentQ, videoQ, videoVars, branches, envVars, crashed>>
    /\ UNCHANGED <<libVars, frameVars, buildVars>>

\* The completion closure of StopPipeline once its weak pipeline upgraded.
CompletionEffect(pp) ==
    [pp EXCEPT !.st = "null", !.idle = @ + 1, !.nulls = @ + 1]

\* The future Future::sequence returned resolves: the completion closure.
SequenceCompleted(p) ==
    /\ crashed = "no"
    /\ pipes[p].seq = "hops" /\ pipes[p].hops = 1
    /\ LET done == [pipes[p] EXCEPT !.seq = "done", !.hops = 0]
       IN  IF Alive(p)
             THEN /\ pipes' = [pipes EXCEPT ![p] = CompletionEffect(done)]
                  /\ parentQ' = Append(parentQ, "PollingChanged(false)")
             ELSE /\ pipes' = [pipes EXCEPT ![p] = done]
                  /\ UNCHANGED parentQ
    /\ UNCHANGED <<parentVars, videoQ, videoVars, branches, envVars, crashed>>
    /\ UNCHANGED <<libVars, frameVars, buildVars>>

\* Mutant: the timer closure reports but leaves the pipeline running.
TimeoutEffect_NoNull(pp) ==
    [pp EXCEPT !.forced = TRUE, !.idle = @ + 1,
               !.recOff = IF pp.rec # 0 THEN @ + 1 ELSE @,
               !.toasts = @ + 1]

\* The timer closure of StopPipeline once its weak pipeline upgraded.
TimeoutEffect(pp) ==
    [pp EXCEPT !.forced = TRUE, !.st = "null", !.idle = @ + 1,
               !.recOff = IF pp.rec # 0 THEN @ + 1 ELSE @,
               !.toasts = @ + 1, !.nulls = @ + 1]

TimeoutMessages(pp) ==
    IF pp.rec # 0
      THEN <<"PollingChanged(false)", "RecordingChanged(false)", "ShowToastMessage">>
      ELSE <<"PollingChanged(false)", "ShowToastMessage">>

\* glib::timeout_add_local_once fires, ten seconds after StopPipeline.
TimerFired(p) ==
    /\ crashed = "no"
    /\ pipes[p].timer = "armed"
    /\ LET fired == [pipes[p] EXCEPT !.timer = "fired", !.eosAtTimer = pipes[p].mainEos]
       IN  IF Alive(p)
             THEN /\ pipes' = [pipes EXCEPT ![p] = TimeoutEffect(fired)]
                  /\ parentQ' = parentQ \o TimeoutMessages(fired)
             ELSE /\ pipes' = [pipes EXCEPT ![p] = fired]
                  /\ UNCHANGED parentQ
    /\ UNCHANGED <<parentVars, videoQ, videoVars, branches, envVars, crashed>>
    /\ UNCHANGED <<libVars, frameVars, buildVars>>

----------------------------------------------------------------------------
Next ==
    \/ ClickToggleRecord
    \/ ClickTogglePolling
    \/ SlaveTogglePolling
    \/ SlaveToggleRecord
    \/ SlavePollingChanged
    \/ SlaveRecordingChanged
    \/ SlaveShowMessage
    \/ VideoSetPixbuf
    \/ VideoStartRecord
    \/ VideoStopRecord
    \/ VideoStartPipeline
    \/ VideoStopPipeline
    \/ \E p \in PipeIds : StateReached(p)
    \/ \E p \in PipeIds : NewSample(p)
    \/ \E b \in BranchIds : TailEosObserved(b)
    \/ \E p \in PipeIds : MainEosObserved(p)
    \/ \E b \in BranchIds : DetachResolved(b)
    \/ \E b \in BranchIds : DetachNotified(b)
    \/ \E b \in BranchIds : RecordPromiseResolved(b)
    \/ \E p \in PipeIds : MainEosResolved(p)
    \/ \E p \in PipeIds : SequenceHop(p)
    \/ \E p \in PipeIds : SequenceCompleted(p)
    \/ \E p \in PipeIds : TimerFired(p)

Spec == Init /\ [][Next]_vars

\* The main loop dispatches every ready source, and a GStreamer thread
\* delivers an event that is in a running pipeline.
Fairness ==
    /\ WF_vars(SlaveTogglePolling) /\ WF_vars(SlaveToggleRecord)
    /\ WF_vars(SlavePollingChanged) /\ WF_vars(SlaveRecordingChanged)
    /\ WF_vars(SlaveShowMessage) /\ WF_vars(VideoSetPixbuf)
    /\ WF_vars(VideoStartRecord) /\ WF_vars(VideoStopRecord)
    /\ WF_vars(VideoStartPipeline) /\ WF_vars(VideoStopPipeline)
    /\ \A p \in PipeIds :
         /\ WF_vars(StateReached(p)) /\ WF_vars(MainEosObserved(p))
         /\ WF_vars(MainEosResolved(p)) /\ WF_vars(SequenceHop(p))
         /\ WF_vars(SequenceCompleted(p)) /\ WF_vars(TimerFired(p))
    /\ \A b \in BranchIds :
         /\ WF_vars(TailEosObserved(b)) /\ WF_vars(DetachResolved(b))
         /\ WF_vars(DetachNotified(b)) /\ WF_vars(RecordPromiseResolved(b))

FairSpec == Spec /\ Fairness

\* The program with its first pipeline started: TogglePolling, StartPipeline
\* and PollingChanged(true) have been processed and nothing else has
\* happened; the click budget counts from here.
RunningInit ==
    /\ LibInit /\ FrameInit /\ BuildInit
    /\ polling = SomeTrue
    /\ recording = SomeFalse
    /\ sync_recording = FALSE
    /\ parentQ = <<>>
    /\ videoQ = <<>>
    /\ pipeline = 1
    /\ record_handle = 0
    /\ pixbuf = FALSE
    /\ pipes = [p \in PipeIds |-> IF p = 1 THEN PlayingPipe ELSE NoPipe]
    /\ branches = [b \in BranchIds |-> NoBranch]
    /\ clicks = 0
    /\ failures = 0
    /\ crashed = "no"

RunningSpec == RunningInit /\ [][Next]_vars

TypeOK ==
    /\ polling \in {SomeTrue, SomeFalse, None}
    /\ recording \in {SomeTrue, SomeFalse, None}
    /\ sync_recording \in BOOLEAN
    /\ pipeline \in 0..MaxPipes
    /\ record_handle \in 0..MaxBranches
    /\ pixbuf \in BOOLEAN
    /\ crashed \in {"no", "assert_start", "assert_stop", "unwrap_none", "send_unwrap",
                    "callback_panic", "config_poisoned", "pad_added_unwrap",
                    "relock_panic"}

----------------------------------------------------------------------------
\* The video component taken alone: any SlaveVideoMsg may be handed to
\* SlaveVideoModel::update in any state, whatever SlaveModel would send.

VideoMsgs == {"StartPipeline", "StopPipeline", "StartRecord", "StopRecord"}

SendVideoMsg ==
    /\ crashed = "no"
    /\ clicks < MaxSends
    /\ \E m \in VideoMsgs : videoQ' = Append(videoQ, m)
    /\ clicks' = clicks + 1
    /\ UNCHANGED <<parentVars, parentQ, videoVars, gstVars, failures, crashed>>
    /\ UNCHANGED <<libVars, frameVars, buildVars>>

\* SlaveModel still consumes what the video component reports.
HarnessNext ==
    \/ SendVideoMsg
    \/ SlavePollingChanged
    \/ SlaveRecordingChanged
    \/ SlaveShowMessage
    \/ VideoSetPixbuf
    \/ VideoStartRecord
    \/ VideoStopRecord
    \/ VideoStartPipeline
    \/ VideoStopPipeline
    \/ \E p \in PipeIds : StateReached(p)
    \/ \E p \in PipeIds : NewSample(p)
    \/ \E b \in BranchIds : TailEosObserved(b)
    \/ \E p \in PipeIds : MainEosObserved(p)
    \/ \E b \in BranchIds : DetachResolved(b)
    \/ \E b \in BranchIds : DetachNotified(b)
    \/ \E b \in BranchIds : RecordPromiseResolved(b)
    \/ \E p \in PipeIds : MainEosResolved(p)
    \/ \E p \in PipeIds : SequenceHop(p)
    \/ \E p \in PipeIds : SequenceCompleted(p)
    \/ \E p \in PipeIds : TimerFired(p)

HarnessSpec == Init /\ [][HarnessNext]_vars

----------------------------------------------------------------------------
\* async_glib.rs: Promise and Future
\*
\* Promise::success only sends the value on the Promise's glib channel; the
\* receiver that Promise::new attached runs Future::success on the main loop
\* (DispatchBegin, DispatchEnd) and returns Continue(false).  for_each keeps
\* the guard of Future::state (the scrutinee of its match) until the match
\* ends, around the push and around the immediate call of the observer; the
\* `while let` of Future::success keeps the guard of Future::callbacks
\* around each callback.  A thread calling for_each is ObserverBegin (the
\* lock and the read) and ObserverEnd (the arm taken, then the unlock).

\* The value the probe of input future i sends.
Value(i) == i

\* The future that the k-th step of Future::sequence returns.
ResultCell(k) == MaxFutures + k

\* What a step works on: the cells, the observers, the sequence, and the
\* unwrap that panicked in it, if any.
Work == [f |-> futures, o |-> observers, s |-> seq, panic |-> "no"]

\* Mutant: success returns without sending the value.
PromiseSuccess_Unsent(w, c, v) ==
    [w EXCEPT !.f[c].sent = @ + 1]

\* Promise::success: self.sender.send(Arc::new(value)).unwrap()
PromiseSuccess(w, c, v) ==
    IF w.f[c].receiver
      THEN [w EXCEPT !.f[c].channel = Append(@, v), !.f[c].sent = @ + 1]
      ELSE [w EXCEPT !.panic = "send_unwrap"]

\* Mutant: the value goes to the front of the vector.
SeqPush_Front(vec, v) == <<v>> \o vec

\* seq.lock().unwrap().as_mut().unwrap().push(value)
SeqPush(vec, v) == Append(vec, v)

RECURSIVE Invoke(_, _, _)
RECURSIVE ForEach(_, _, _)
RECURSIVE SequenceNext(_, _)

\* Mutant: the step also pulls the next future at once instead of leaving
\* that to the continuation.
AwaitInput_Eager(w, k) ==
    SequenceNext(ForEach([w EXCEPT !.s.pulled = k], k, [kind |-> "flat_map", arg |-> k]),
                 k + 1)

\* The Some(future) arm of the `next` closure: future.flat_map(continuation).
AwaitInput(w, k) ==
    ForEach([w EXCEPT !.s.pulled = k], k, [kind |-> "flat_map", arg |-> k])

\* The `next` closure of Future::sequence with the iterator at position k.
SequenceNext(w, k) ==
    IF k > w.s.n
      THEN PromiseSuccess([w EXCEPT !.s.taken = TRUE], ResultCell(k), w.s.vec)
      ELSE AwaitInput(w, k)

\* Future::for_each called on the control loop.
ForEach(w, c, cb) ==
    IF Len(w.f[c].state) = 1
      THEN Invoke(w, cb, w.f[c].state[1])
      ELSE [w EXCEPT !.f[c].callbacks = Append(@, cb)]

\* A callback called with the resolved value: an observer; the closure
\* flat_map registers for the k-th input (the continuation pushes the value
\* and calls `next`, and the future it returns forwards to flat_map's
\* promise); that forwarding closure; an observer whose closure calls
\* for_each on the same future again, and the observer it registers there.
Invoke(w, cb, v) ==
    CASE cb.kind = "observer" ->
           [w EXCEPT !.o[cb.arg].calls = @ + 1, !.o[cb.arg].got = <<v>>]
      [] cb.kind = "flat_map" ->
           ForEach(SequenceNext([w EXCEPT !.s.vec = SeqPush(@, v)], cb.arg + 1),
                   ResultCell(cb.arg + 1),
                   [kind |-> "forward", arg |-> ResultCell(cb.arg)])
      [] cb.kind = "forward" -> PromiseSuccess(w, cb.arg, v)
      [] cb.kind = "nesting" ->
           ForEach([w EXCEPT !.o[cb.arg].calls = @ + 1, !.o[cb.arg].got = <<v>>],
                   w.o[cb.arg].cell, [kind |-> "inner", arg |-> cb.arg])
      [] cb.kind = "inner" -> [w EXCEPT !.o[cb.arg].inner = @ + 1]

\* while let Some(callback) = self.callbacks.lock().unwrap().pop()
RECURSIVE RunCallbacks(_, _, _)
RunCallbacks(w, cbs, v) ==
    IF cbs = <<>>
      THEN w
      ELSE RunCallbacks(Invoke(w, cbs[Len(cbs)], v), SubSeq(cbs, 1, Len(cbs) - 1), v)

\* Mutant: the callbacks are called but stay in the vector.
Drained_Keep(cbs) == cbs

\* What the pop loop leaves of Future::callbacks.
Drained(cbs) == <<>>

\* Mutant: the promise stays in the Option.
Taken_Keep(opt) == opt

\* Option::take
Taken(opt) == "None"

\* Mutant: the guard of Future::state is dropped after the read.
ForEachGuard_Dropped(o) == 0

\* The guard for_each holds from the read of Future::state to the end of
\* its match.
ForEachGuard(o) == o

NoLock == \A c \in CellIds : futures[c].lock = 0

\* Entries of a probe closure beyond its first.
RECURSIVE SumRaces(_)
SumRaces(i) ==
    IF i = 0
      THEN 0
      ELSE SumRaces(i - 1) + (IF probe[i].entries > 1 THEN probe[i].entries - 1 ELSE 0)

Races == SumRaces(MaxFutures)

\* An EOS reaches the watched pad while the probe is installed: the framework
\* enters the probe closure.
ProbeEnter(i) ==
    /\ crashed = "no"
    /\ probe[i].installed
    /\ probe[i].entries = 0 \/ Races < MaxRaces
    /\ probe' = [probe EXCEPT ![i].inside = @ + 1, ![i].entries = @ + 1]
    /\ UNCHANGED <<coreVars, buildVars, crashed, futures, promises, observers, seq,
                   dispatching, resolution, frameVars>>

\* promise.lock().unwrap().take().unwrap().success(()); PadProbeReturn::Remove
ProbeRun(i) ==
    /\ crashed = "no"
    /\ probe[i].inside > 0
    /\ IF promises[i] = "Some"
         THEN LET w == PromiseSuccess(Work, i, Value(i))
              IN  /\ promises' = [promises EXCEPT ![i] = Taken(@)]
                  /\ futures' = w.f
                  /\ crashed' = w.panic
                  /\ probe' = [probe EXCEPT ![i].inside = @ - 1, ![i].installed = FALSE]
         ELSE /\ crashed' = "unwrap_none"
              /\ probe' = [probe EXCEPT ![i].inside = @ - 1]
              /\ UNCHANGED <<promises, futures>>
    /\ UNCHANGED <<coreVars, buildVars, observers, seq, dispatching, resolution, frameVars>>

\* A thread enters Future::for_each on cell c: it locks Future::state and
\* reads it.
ObserverBegin(o, c) ==
    /\ crashed = "no"
    /\ observers[o].pc = "idle"
    /\ futures[c].lock = 0
    /\ observers' = [observers EXCEPT ![o].pc = "locked", ![o].cell = c,
                                      ![o].seen = futures[c].state]
    /\ futures' = [futures EXCEPT ![c].lock = ForEachGuard(o)]
    /\ UNCHANGED <<coreVars, buildVars, crashed, promises, probe, seq, dispatching,
                   resolution, frameVars>>

\* The arm of the match: the observer is called with the value read, or
\* pushed on Future::callbacks; then the guard is dropped.
ObserverEnd(o) ==
    /\ crashed = "no"
    /\ observers[o].pc = "locked"
    /\ LET c == observers[o].cell
           unlocked == [futures EXCEPT ![c].lock = IF @ = o THEN 0 ELSE @]
       IN  IF Len(observers[o].seen) = 1
             THEN /\ observers' = [observers EXCEPT ![o].pc = "done", ![o].calls = @ + 1,
                                                    ![o].got = observers[o].seen]
                  /\ futures' = unlocked
             ELSE /\ observers' = [observers EXCEPT ![o].pc = "done"]
                  /\ futures' = [unlocked EXCEPT ![c].callbacks =
                                     Append(@, [kind |-> "observer", arg |-> o])]
    /\ UNCHANGED <<coreVars, buildVars, crashed, promises, probe, seq, dispatching,
                   resolution, frameVars>>

\* Future::sequence(iter) called on the control loop over the first n inputs.
CallSequence ==
    /\ crashed = "no"
    /\ dispatching = 0
    /\ ~seq.called
    /\ NoLock
    /\ \E n \in 0..MaxFutures :
         LET w == SequenceNext([Work EXCEPT !.s.called = TRUE, !.s.n = n], 1)
         IN  /\ futures' = w.f
             /\ observers' = w.o
             /\ seq' = w.s
             /\ crashed' = w.panic
    /\ UNCHANGED <<coreVars, buildVars, promises, probe, dispatching, resolution, frameVars>>

\* The receiver of cell c is dispatched: Future::success assigns the state.
DispatchBegin(c) ==
    /\ crashed = "no"
    /\ dispatching = 0
    /\ futures[c].receiver
    /\ futures[c].channel # <<>>
    /\ futures[c].lock = 0
    /\ futures' = [futures EXCEPT ![c].state = <<Head(futures[c].channel)>>,
                                  ![c].channel = Tail(@),
                                  ![c].assigned = @ + 1]
    /\ dispatching' = c
    /\ resolution' = IF c \in InputIds THEN Append(resolution, c) ELSE resolution
    /\ UNCHANGED <<coreVars, buildVars, crashed, promises, probe, observers, seq, frameVars>>

\* Future::success pops and calls the callbacks; the receiver returns
\* Continue(false), which destroys its source with whatever is still queued.
DispatchEnd(c) ==
    /\ crashed = "no"
    /\ dispatching = c
    /\ NoLock
    /\ LET cbs == futures[c].callbacks
           w == RunCallbacks([Work EXCEPT !.f[c].callbacks = Drained(cbs)],
                             cbs, futures[c].state[1])
       IN  /\ futures' = [w.f EXCEPT ![c].receiver = FALSE, ![c].channel = <<>>]
           /\ observers' = w.o
           /\ seq' = w.s
           /\ crashed' = w.panic
    /\ dispatching' = 0
    /\ UNCHANGED <<coreVars, buildVars, promises, probe, resolution, frameVars>>

\* Threads observing futures that probes resolve.
FutureNext ==
    \/ \E i \in ObservedIds : ProbeEnter(i)
    \/ \E i \in ObservedIds : ProbeRun(i)
    \/ \E o \in ObserverIds : \E c \in ObservedIds : ObserverBegin(o, c)
    \/ \E o \in ObserverIds : ObserverEnd(o)
    \/ \E c \in ObservedIds : DispatchBegin(c)
    \/ \E c \in ObservedIds : DispatchEnd(c)

FutureSpec == Init /\ [][FutureNext]_vars

\* Future::sequence over futures that probes resolve.
SequencingNext ==
    \/ \E i \in InputIds : ProbeEnter(i)
    \/ \E i \in InputIds : ProbeRun(i)
    \/ CallSequence
    \/ \E c \in CellIds : DispatchBegin(c)
    \/ \E c \in CellIds : DispatchEnd(c)

SequenceSpec == Init /\ [][SequencingNext]_vars

\* Future::apply(t) and From<T>::from(t): Promise::new, promise.future(),
\* promise.success(t).  Cell c becomes a future made from the plain value
\* Value(c).
FutureFrom(c) ==
    /\ crashed = "no"
    /\ dispatching = 0
    /\ futures[c].sent = 0
    /\ LET w == PromiseSuccess(Work, c, Value(c))
       IN  /\ futures' = w.f
           /\ crashed' = w.panic
    /\ UNCHANGED <<coreVars, buildVars, promises, probe, observers, seq, dispatching,
                   resolution, frameVars>>

\* The future of cell c has been returned to its caller.
Made(c) == IF c \in InputIds THEN futures[c].sent > 0 ELSE seq.called

\* The futures made from a plain value: one by From / apply, and the one
\* Future::sequence returns for an empty iterator (its None arm is
\* From<Vec>).
ValueCells == {1, ResultCell(1)}

\* Futures made from plain values, and threads observing them.
ValueNext ==
    \/ \E c \in ValueCells \cap InputIds : FutureFrom(c)
    \/ CallSequence /\ seq'.n = 0
    \/ \E o \in ObserverIds : \E c \in ValueCells : Made(c) /\ ObserverBegin(o, c)
    \/ \E o \in ObserverIds : ObserverEnd(o)
    \/ \E c \in ValueCells : DispatchBegin(c)
    \/ \E c \in ValueCells : DispatchEnd(c)

\* The main loop dispatches every receiver that has a value queued, and a
\* thread inside for_each leaves it.
ValueFairness ==
    /\ \A c \in ValueCells : WF_vars(DispatchBegin(c)) /\ WF_vars(DispatchEnd(c))
    /\ \A o \in ObserverIds : WF_vars(ObserverEnd(o))

ValueSpec == Init /\ [][ValueNext]_vars /\ ValueFairness

\* The arm of for_each's match for an observer whose closure calls for_each
\* on the same future.  With the value read the closure runs inside the
\* match, under the guard of Future::state, and its for_each locks that
\* mutex again on the same thread: std::sync::Mutex does not return from
\* such a lock, it blocks for ever or panics.  With no value read the
\* closure is pushed and the guard dropped.
NestingObserverEnd(o) ==
    /\ crashed = "no"
    /\ observers[o].pc = "locked"
    /\ LET c == observers[o].cell
           unlocked == [futures EXCEPT ![c].lock = IF @ = o THEN 0 ELSE @]
           called == [observers EXCEPT ![o].calls = @ + 1, ![o].got = observers[o].seen]
       IN  IF Len(observers[o].seen) = 1
             THEN IF futures[c].lock # 0
                    THEN \E outcome \in {"blocked", "panicked"} :
                           /\ observers' = [called EXCEPT ![o].pc = outcome]
                           /\ crashed' = IF outcome = "panicked" THEN "relock_panic" ELSE "no"
                           /\ UNCHANGED futures
                    ELSE LET w == ForEach([Work EXCEPT !.o = called], c,
                                          [kind |-> "inner", arg |-> o])
                         IN  /\ observers' = [w.o EXCEPT ![o].pc = "done"]
                             /\ futures' = w.f
                             /\ UNCHANGED crashed
             ELSE /\ observers' = [observers EXCEPT ![o].pc = "done"]
                  /\ futures' = [unlocked EXCEPT ![c].callbacks =
                                     Append(@, [kind |-> "nesting", arg |-> o])]
                  /\ UNCHANGED crashed
    /\ UNCHANGED <<coreVars, buildVars, promises, probe, seq, dispatching,
                   resolution, frameVars>>

\* Futures made from plain values, observed by threads whose closures
\* register a second observer on the same future.
NestedNext ==
    \/ \E c \in ObservedIds : FutureFrom(c)
    \/ \E o \in ObserverIds : \E c \in ObservedIds : Made(c) /\ ObserverBegin(o, c)
    \/ \E o \in ObserverIds : NestingObserverEnd(o)
    \/ \E c \in ObservedIds : DispatchBegin(c)
    \/ \E c \in ObservedIds : DispatchEnd(c)

NestedSpec == Init /\ [][NestedNext]_vars

----------------------------------------------------------------------------
\* slave/video.rs attach_pipeline_callback: the appsink callbacks
\*
\* new_event and new_sample of one appsink run on its streaming thread, one
\* after the other; the appsinks of two pipelines run on different threads.
\* new_sample up to the lock of the Config touches nothing shared but
\* frame_size, which only its own thread writes, and is one step; the
\* post-process runs inside the match on config.lock(), whose guard `config`
\* lives to the end of the Ok arm, and is a step of its own (post_process).
\* A framework call that returns a Result or an Option may fail: the failure
\* is an input of the step.  A panic of the closure unwinds into the
\* framework's trampoline: the binding may catch it (the appsink then answers
\* every later sample itself) or the process aborts.  The guard of
\* frame_size is never held across a call that can panic, so that lock is
\* never poisoned.

\* The (width, height) pairs a caps event may carry.
Sizes == {<<1, 2>>, <<4, 1>>}

\* What new_event gets from an event: Some((width, height)) for a caps event
\* whose structure has both fields, None for anything else.
Events == {<<>>} \cup {<<sz>> : sz \in Sizes}

\* The Config's video_algorithms: empty, or CLAHE first.
Algorithms == {<<>>, <<"CLAHE">>}

\* What a new_sample call may meet after the dimensions: pull_sample, buffer,
\* map_readable, Mat::new_rows_cols_with_data or sender.send failing.
SampleOutcomes == {"ok", "pull_err", "no_buffer", "map_err", "mat_err", "send_err"}

\* What the post-process may meet: an OpenCV call failing under expect, or
\* sender.send failing afterwards.
ProcessOutcomes == {"ok", "cv_err", "send_err"}

RECURSIVE SumSamples(_)
SumSamples(p) == IF p = 0 THEN 0 ELSE SumSamples(p - 1) + delivered[p].samples

Samples == SumSamples(MaxPipes)

\* Mutant: absent dimensions do not stop the call.
DimensionsCached_Assumed(size) == TRUE

\* frame_size.lock().unwrap().ok_or(..)? lets the call go on
DimensionsCached(size) == size # <<>>

\* The flow error of the first `?`, for absent dimensions.
NoDimensionsFlow == "Flushing"

\* The flow error each failing call is mapped to.
FailureFlow(o) ==
    CASE o = "pull_err" -> "Eos"
      [] o = "no_buffer" -> "Error"
      [] o = "map_err" -> "Error"
      [] o = "mat_err" -> "CustomError"

\* CV_8UC3: three bytes for each pixel.
ElemSize == 3

\* The row stride of a "video/x-raw, format=RGB" buffer: the bytes of a row
\* rounded up to a multiple of four.
RowStride(width) == ((width * ElemSize + 3) \div 4) * 4

\* The mapped bytes of a sample of the given size, each byte named by its
\* position in the buffer.
SampleBuffer(size) == [i \in 1..(size[2] * RowStride(size[1])) |-> i]

\* Mat::new_rows_cols_with_data(height, width, CV_8UC3, ptr, Mat_AUTO_STEP)
\* followed by clone(): rows of width * ElemSize bytes read back to back
\* from ptr.
MatClone(width, height, data) ==
    [width |-> width, height |-> height,
     data |-> SubSeq(data, 1, height * width * ElemSize)]

\* The Mat the `_ => mat` and `Err(_) => mat` arms send for a sample of the
\* cached size (width, height) = frame_size.unwrap().
Forwarded(d, cached) ==
    IF cached = <<>> THEN d
    ELSE LET size == cached[1]
         IN  [d EXCEPT !.sample = size,
                       !.plain = <<MatClone(size[1], size[2], SampleBuffer(size))>>]

\* The call returned flow after meeting case; sent: a Mat went to the channel.
Returned(d, known, case, flow, sent) ==
    [d EXCEPT !.samples = @ + 1, !.known = known, !.case = case, !.flow = flow,
              !.frames = IF sent THEN @ + 1 ELSE @,
              !.sample = <<>>, !.plain = <<>>]

\* The call panicked after meeting case.
Panicked(d, known, case) ==
    [d EXCEPT !.samples = @ + 1, !.known = known, !.case = case, !.flow = "panic",
              !.panics = @ + 1, !.sample = <<>>, !.plain = <<>>]

\* StartPipeline: the handler locks the Config for the URL, builds the
\* pipeline, drops the guard and attaches the callbacks with a fresh
\* frame_size.
AttachPipelineCallback(p) ==
    /\ crashed = "no"
    /\ control.pc = "idle"
    /\ ~callback[p].attached
    /\ \A q \in 1..(p - 1) : callback[q].attached
    /\ config.lock = 0
    /\ IF config.poisoned
         THEN /\ crashed' = "config_poisoned"
              /\ UNCHANGED <<callback, frame_size>>
         ELSE /\ callback' = [callback EXCEPT ![p].attached = TRUE]
              /\ frame_size' = [frame_size EXCEPT ![p] = <<>>]
              /\ UNCHANGED crashed
    /\ UNCHANGED <<coreVars, buildVars, libVars, config, control, delivered>>

\* The new_event closure.
new_event(p, ev) ==
    /\ crashed = "no"
    /\ callback[p].attached
    /\ callback[p].pc = "idle"
    /\ IF ev # <<>>
         THEN /\ frame_size' = [frame_size EXCEPT ![p] = ev]
              /\ delivered' = [delivered EXCEPT ![p].caps = TRUE,
                                               ![p].sample = <<>>, ![p].plain = <<>>]
         ELSE UNCHANGED <<frame_size, delivered>>
    /\ UNCHANGED <<coreVars, buildVars, libVars, crashed, config, callback, control>>

\* The end of a call that panicked: caught by the binding or not.
Unwound(p) ==
    \E caught \in BOOLEAN :
        /\ crashed' = IF caught THEN "no" ELSE "callback_panic"
        /\ callback' = [callback EXCEPT ![p].pc = "idle", ![p].panicked = TRUE]

\* The new_sample closure up to the post-process.
new_sample(p, o) ==
    /\ crashed = "no"
    /\ callback[p].attached
    /\ callback[p].pc = "idle"
    /\ ~callback[p].panicked
    /\ Samples < MaxSamples
    /\ LET d == delivered[p]
           known == frame_size[p] # <<>>
       IN  IF ~DimensionsCached(frame_size[p])
             THEN /\ o = "ok"
                  /\ delivered' = [delivered EXCEPT ![p] =
                                      Returned(d, known, "no_dims", NoDimensionsFlow, FALSE)]
                  /\ UNCHANGED <<crashed, config, callback>>
             ELSE IF o \in {"pull_err", "no_buffer", "map_err", "mat_err"}
             THEN /\ delivered' = [delivered EXCEPT ![p] =
                                      Returned(d, known, o, FailureFlow(o), FALSE)]
                  /\ UNCHANGED <<crashed, config, callback>>
             ELSE /\ config.lock = 0
                  /\ IF ~config.poisoned /\ config.video_algorithms = <<"CLAHE">>
                       THEN /\ o = "ok"
                            /\ config' = [config EXCEPT !.lock = p]
                            /\ callback' = [callback EXCEPT ![p].pc = "processing"]
                            /\ UNCHANGED <<crashed, delivered>>
                       ELSE LET case == IF config.poisoned THEN "poisoned" ELSE o
                            IN  IF o = "send_err"
                                  THEN /\ delivered' = [delivered EXCEPT ![p] =
                                                           Panicked(d, known, "send_err")]
                                       /\ Unwound(p)
                                       /\ UNCHANGED config
                                  ELSE /\ delivered' = [delivered EXCEPT ![p] =
                                                           Forwarded(Returned(d, known, case, "Ok", TRUE),
                                                                     frame_size[p])]
                                       /\ UNCHANGED <<crashed, config, callback>>
    /\ UNCHANGED <<coreVars, buildVars, libVars, frame_size, control>>

\* apply_clahe(correct_underwater_color(mat)) under the guard `config`, then
\* the end of the match and sender.send(mat).unwrap().
post_process(p, o) ==
    /\ crashed = "no"
    /\ callback[p].pc = "processing"
    /\ LET d == delivered[p]
       IN  IF o = "ok"
             THEN /\ delivered' = [delivered EXCEPT ![p] = Returned(d, TRUE, "ok", "Ok", TRUE)]
                  /\ config' = [config EXCEPT !.lock = 0]
                  /\ callback' = [callback EXCEPT ![p].pc = "idle"]
                  /\ UNCHANGED crashed
             ELSE /\ delivered' = [delivered EXCEPT ![p] = Panicked(d, TRUE, o)]
                  /\ config' = [config EXCEPT !.lock = 0,
                                              !.poisoned = @ \/ o = "cv_err"]
                  /\ Unwound(p)
    /\ UNCHANGED <<coreVars, buildVars, libVars, frame_size, control>>

\* SlaveVideoMsg::ConfigUpdated(config) is taken from the queue: the handler
\* asks for the lock of the Config.
ConfigUpdatedBegin(a) ==
    /\ crashed = "no"
    /\ control.pc = "idle"
    /\ control.updates < MaxUpdates
    /\ control' = [pc |-> "locking", updates |-> control.updates + 1, pending |-> a]
    /\ UNCHANGED <<coreVars, buildVars, libVars, crashed, frame_size, config, callback, delivered>>

\* *self.get_mut_config().lock().unwrap() = config
ConfigUpdatedEnd ==
    /\ crashed = "no"
    /\ control.pc = "locking"
    /\ config.lock = 0
    /\ IF config.poisoned
         THEN /\ crashed' = "config_poisoned"
              /\ UNCHANGED config
         ELSE /\ config' = [config EXCEPT !.video_algorithms = control.pending]
              /\ UNCHANGED crashed
    /\ control' = [control EXCEPT !.pc = "idle"]
    /\ UNCHANGED <<coreVars, buildVars, libVars, frame_size, callback, delivered>>

FrameNext ==
    \/ \E p \in PipeIds : AttachPipelineCallback(p)
    \/ \E p \in PipeIds : \E ev \in Events : new_event(p, ev)
    \/ \E p \in PipeIds : \E o \in SampleOutcomes : new_sample(p, o)
    \/ \E p \in PipeIds : \E o \in ProcessOutcomes : post_process(p, o)
    \/ \E a \in Algorithms : ConfigUpdatedBegin(a)
    \/ ConfigUpdatedEnd

FrameSpec == Init /\ [][FrameNext]_vars

----------------------------------------------------------------------------
\* video.rs: create_pipeline, connect_elements_to_pipeline and
\* disconnect_elements_to_pipeline as the steps they take on the pipeline.
\* An element is <<name, n>>: n is 0 for the elements of create_pipeline and
\* the number of the StartRecord for the elements of a recording branch.

E(name) == <<name, 0>>

\* The statements that matter here: ElementFactory::make, add, link (of
\* elements or of their pads) and the registration of the pad-added closure;
\* Call stands for any other fallible call on an element.
Make(e) == <<"make", e, e>>
Add(e) == <<"add", e, e>>
Link(a, b) == <<"link", a, b>>
Connect(a, b) == <<"connect", a, b>>
Call(op, e) == <<op, e, e>>

\* create_pipeline, statement by statement.
BuilderSteps ==
    << Make(E("source")), Make(E("rtpdepay")), Make(E("display")), Call("caps", E("display")),
       Make(E("tee_source")), Make(E("tee_decoded")),
       Make(E("queue_to_decode")), Make(E("queue_to_app")),
       Make(E("videoconvert")), Make(E("h265parse")), Make(E("video_decoder")),
       Add(E("source")), Add(E("display")), Add(E("tee_decoded")), Add(E("tee_source")),
       Add(E("queue_to_app")), Add(E("queue_to_decode")),
       Add(E("videoconvert")), Add(E("rtpdepay")),
       Add(E("h265parse")), Add(E("video_decoder")),
       Link(E("h265parse"), E("video_decoder")),
       Link(E("queue_to_decode"), E("h265parse")),
       Link(E("video_decoder"), E("tee_decoded")),
       Link(E("queue_to_app"), E("videoconvert")),
       Link(E("videoconvert"), E("display")),
       Link(E("tee_source"), E("queue_to_decode")),
       Link(E("tee_decoded"), E("queue_to_app")),
       Connect(E("source"), E("rtpdepay")),
       Link(E("rtpdepay"), E("tee_source")) >>

\* The elements gst_record_elements makes for the n-th StartRecord.
RecordElements(n) ==
    << <<"queue_to_file", n>>, <<"h265parse", n>>, <<"matroskamux", n>>, <<"filesink", n>> >>

\* Mutant: the pair is linked before its second element is added.
RECURSIVE Windows_LinkFirst(_, _)
Windows_LinkFirst(elements, i) ==
    IF i >= Len(elements) THEN <<>>
    ELSE <<Link(elements[i], elements[i + 1]), Add(elements[i + 1])>>
            \o Windows_LinkFirst(elements, i + 1)

\* elements.windows(2): add the second, link the pair.
RECURSIVE Windows(_, _)
Windows(elements, i) ==
    IF i >= Len(elements) THEN <<>>
    ELSE <<Add(elements[i + 1]), Link(elements[i], elements[i + 1])>>
            \o Windows(elements, i + 1)

\* connect_elements_to_pipeline, statement by statement.
ConnectSteps(tee, elements) ==
    <<Call("by_name", tee), Add(elements[1]), Call("request_pad", tee)>>
        \o Windows(elements, 1)
        \o <<Link(tee, elements[1])>>

\* StartRecord: gst_record_elements, then connect_elements_to_pipeline.
RecordSteps(n) ==
    [i \in 1..Len(RecordElements(n)) |-> Make(RecordElements(n)[i])]
        \o ConnectSteps(E("tee_source"), RecordElements(n))

\* A step that ends the function with Err when it fails; registering the
\* pad-added closure cannot fail.
Fallible(steps) == {i \in 1..Len(steps) : steps[i][1] # "connect"}

\* pipeline.add(e) / pipeline.add_many(..)
Added(g, e) == [g EXCEPT !.elements = @ \cup {e}]

\* Mutant: the link is made in the opposite direction.
Linked_Reversed(g, a, b) ==
    [g EXCEPT !.links = @ \cup {<<b, a>>},
              !.unowned = @ \cup (IF {a, b} \subseteq g.elements THEN {} ELSE {<<b, a>>})]

\* a.link(b), or pad.link(sinkpad) between a pad of a and a pad of b
Linked(g, a, b) ==
    [g EXCEPT !.links = @ \cup {<<a, b>>},
              !.unowned = @ \cup (IF {a, b} \subseteq g.elements THEN {} ELSE {<<a, b>>})]

Apply(g, step) ==
    CASE step[1] = "add" -> Added(g, step[2])
      [] step[1] = "link" -> Linked(g, step[2], step[3])
      [] step[1] = "connect" -> [g EXCEPT !.pad_added = TRUE]
      [] OTHER -> g

\* The first n steps, in order.
RECURSIVE Run(_, _, _)
Run(g, steps, n) == IF n = 0 THEN g ELSE Apply(Run(g, steps, n - 1), steps[n])

\* The kinds of topology change among the first n steps.
Changes(steps, n) == {steps[i][1] : i \in 1..n} \cap {"add", "link"}

\* create_pipeline with its k-th step failing (0: none fails): Ok(pipeline),
\* or Err with the pipeline as the steps before k left it.
create_pipeline(k) ==
    IF k = 0
      THEN [ok |-> TRUE, done |-> Len(BuilderSteps),
            graph |-> Run(NoGraph, BuilderSteps, Len(BuilderSteps))]
      ELSE [ok |-> FALSE, done |-> k - 1,
            graph |-> Run(NoGraph, BuilderSteps, k - 1)]

\* Promise::success sends to the channel of the promise; the receiver that
\* Promise::new attached to the main context runs Future::success and with
\* it the continuation, whichever thread called success.
Resolver_Caller(caller) == caller

Resolver(caller) == "control"

\* A thread performs changes of the given kinds; a change made by the
\* control loop while rtspsrc's thread is inside its link runs concurrently
\* with that link.
Mutated(m, kinds, thread) ==
    [by |-> m.by \cup {<<k, thread>> : k \in kinds},
     concurrent |-> m.concurrent
                    \/ (kinds # {} /\ thread = "control" /\ source_thread = "linking")]

\* Mutant: the pipeline is kept whatever happened.
Retained_Partial(r, st) == <<r.graph>>

\* self.set_pipeline(Some(pipeline)) in the Ok arm of set_state, in the Ok
\* arm of create_pipeline, and nowhere else.
Retained(r, st) == IF r.ok /\ st = "ok" THEN <<r.graph>> ELSE <<>>

StartReports(r, st) ==
    IF r.ok /\ st = "ok"
      THEN <<"PollingChanged(true)">>
      ELSE <<"ErrorMessage", "PollingChanged(false)">>

\* SlaveVideoMsg::StartPipeline, sent by TogglePolling in Idle:
\* create_pipeline failing at step k or not at all, then set_state(Playing).
StartPipelineHandled(k, st) ==
    /\ crashed = "no"
    /\ topology = <<>>
    /\ created.calls < MaxBuilds
    /\ IF k = 0 THEN st \in {"ok", "state_err"} ELSE st = "none"
    /\ LET r == create_pipeline(k)
       IN  /\ created' = [calls |-> created.calls + 1, ok |-> r.ok, failed |-> k,
                          state |-> st, sent |-> StartReports(r, st), graph |-> r.graph]
           /\ topology' = Retained(r, st)
           /\ mutation' = Mutated(mutation, Changes(BuilderSteps, r.done), "control")
    /\ UNCHANGED <<source_thread, attached>>
    /\ UNCHANGED <<coreVars, crashed, libVars, frameVars>>

\* The "media" field of the caps of a pad the source adds.
MediaKinds == {"video", "audio"}

\* media.map_or(false, |x| x.eq("video"))
Eligible(media) == media = "video"

\* pad.link(sinkpad) is refused when the sink pad has a peer already.
PadLinkRefused(g, b) == \E l \in g.links : l[2] = b

\* rtspsrc emits pad-added on its own thread, once for each stream of the
\* session: the closure registered by create_pipeline reads the media kind
\* of the new pad and, for a video pad, starts to link it to the
\* depayloader; for any other pad it returns.
PadAddedBegin(media) ==
    /\ crashed = "no"
    /\ topology # <<>>
    /\ topology[1].pad_added
    /\ source_thread \in {"idle", "done"}
    /\ Cardinality(topology[1].pads) < MaxPads
    /\ topology' = <<[topology[1] EXCEPT
                        !.pads = @ \cup {<<media, Cardinality(@) + 1>>}]>>
    /\ IF Eligible(media)
         THEN /\ source_thread' = "linking"
              /\ mutation' = Mutated(mutation, {"link"}, "source")
         ELSE UNCHANGED <<source_thread, mutation>>
    /\ UNCHANGED <<created, attached>>
    /\ UNCHANGED <<coreVars, crashed, libVars, frameVars>>

\* pad.link(&first.static_pad("sink").unwrap()) has returned: Ok, or the
\* Err that the closure unwraps.
PadAddedEnd ==
    /\ crashed = "no"
    /\ topology # <<>>
    /\ source_thread = "linking"
    /\ source_thread' = "done"
    /\ IF PadLinkRefused(topology[1], E("rtpdepay"))
         THEN /\ crashed' = "pad_added_unwrap"
              /\ UNCHANGED topology
         ELSE /\ topology' = <<Linked(topology[1], E("source"), E("rtpdepay"))>>
              /\ UNCHANGED crashed
    /\ UNCHANGED <<created, attached, mutation>>
    /\ UNCHANGED <<coreVars, libVars, frameVars>>

\* SlaveVideoMsg::StartRecord with a pipeline and no record_handle: the
\* attach failing at step k or not at all.  What the steps before k did to
\* the pipeline stays.
StartRecordHandled(k) ==
    /\ crashed = "no"
    /\ topology # <<>>
    /\ ~attached.handle
    /\ attached.st \in {"none", "removed"}   \* one branch is followed at a time
    /\ attached.calls < MaxAttaches
    /\ LET n == attached.calls + 1
           steps == RecordSteps(n)
           done == IF k = 0 THEN Len(steps) ELSE k - 1
       IN  /\ k \in {0} \cup Fallible(steps)
           /\ topology' = <<Run(topology[1], steps, done)>>
           /\ attached' = [calls |-> n, handle |-> k = 0, failed |-> k,
                           st |-> IF k = 0 THEN "attached" ELSE "none"]
           /\ mutation' = Mutated(mutation, Changes(steps, done), "control")
    /\ UNCHANGED <<created, source_thread>>
    /\ UNCHANGED <<coreVars, crashed, libVars, frameVars>>

\* teepad.unlink(&first_sinkpad) and output_tee.remove_pad(teepad)
Unlinked(g, a, b) == [g EXCEPT !.links = @ \ {<<a, b>>}]

\* pipeline.remove_many(elements): the elements leave the pipeline with the
\* links between them.
Removed(g, es) ==
    [g EXCEPT !.elements = @ \ es,
              !.links = {l \in @ : l[1] \notin es /\ l[2] \notin es}]

\* SlaveVideoMsg::StopRecord with a record_handle:
\* disconnect_elements_to_pipeline unlinks the branch from the tee, installs
\* the probe on the last sink pad and sends EOS into the branch.
StopRecordHandled ==
    /\ crashed = "no"
    /\ topology # <<>>
    /\ attached.handle
    /\ topology' = <<Unlinked(topology[1], E("tee_source"), RecordElements(attached.calls)[1])>>
    /\ attached' = [attached EXCEPT !.handle = FALSE, !.st = "draining"]
    /\ mutation' = Mutated(mutation, {"unlink"}, "control")
    /\ UNCHANGED <<created, source_thread>>
    /\ UNCHANGED <<coreVars, crashed, libVars, frameVars>>

\* The EOS reaches the probe on the branch's streaming thread:
\* promise.lock().unwrap().take().unwrap().success(()).
TailProbeFired ==
    /\ crashed = "no"
    /\ attached.st = "draining"
    /\ attached' = [attached EXCEPT !.st = "observed"]
    /\ UNCHANGED <<created, topology, source_thread, mutation>>
    /\ UNCHANGED <<coreVars, crashed, libVars, frameVars>>

\* The continuation that future.map registered: remove_many and
\* set_state(Null) on the branch's elements.
RemovalContinued ==
    /\ crashed = "no"
    /\ attached.st = "observed"
    /\ topology # <<>>
    /\ attached' = [attached EXCEPT !.st = "removed"]
    /\ LET es == {RecordElements(attached.calls)[i] : i \in 1..Len(RecordElements(attached.calls))}
       IN  topology' = <<Removed(topology[1], es)>>
    /\ mutation' = Mutated(mutation, {"remove"}, Resolver("tail"))
    /\ UNCHANGED <<created, source_thread>>
    /\ UNCHANGED <<coreVars, crashed, libVars, frameVars>>

BuildNext ==
    \/ \E k \in {0} \cup Fallible(BuilderSteps) :
         \E st \in {"none", "ok", "state_err"} : StartPipelineHandled(k, st)
    \/ \E media \in MediaKinds : PadAddedBegin(media)
    \/ PadAddedEnd
    \/ \E k \in 0..Len(RecordSteps(1)) : StartRecordHandled(k)
    \/ StopRecordHandled
    \/ TailProbeFired
    \/ RemovalContinued

BuildSpec == Init /\ [][BuildNext]_vars

----------------------------------------------------------------------------
\* Properties

\* The detach completion future (the mapped future StopRecord observes) of
\* branch b has resolved: its elements are removed and RecordingChanged(false)
\* has been sent.
DrainNotified(b) == branches[b].st \in {"notified", "resolved"}

\* Pipelines that StopPipeline found recording.
StoppedRecording == {p \in PipeIds : pipes[p].stopped /\ pipes[p].rec # 0}

\* C1: whenever StopPipeline was processed with a recording branch attached,
\* PollingChanged(false) is sent and the pipeline is set to Null only after
\* the drain of that branch has sent its RecordingChanged(false).
C1_DrainBeforeIdle ==
    \A p \in StoppedRecording :
        (pipes[p].idle > 0 \/ pipes[p].nulls > 0) => DrainNotified(pipes[p].rec)

\* C2: when the teardown timer fires before the controller has seen the main
\* EOS confirmation, the pipeline is forced to Null, PollingChanged(false) is
\* reported and exactly one warning toast exists for that StopPipeline; no
\* StopPipeline ever produces more than one toast.
C2_TimeoutForcesIdle ==
    \A p \in PipeIds :
        /\ pipes[p].toasts <= 1
        /\ (pipes[p].timer = "fired" /\ pipes[p].eosAtTimer # "resolved")
             => /\ pipes[p].st = "null"
                /\ pipes[p].nulls >= 1
                /\ pipes[p].idle >= 1
                /\ pipes[p].toasts = 1

C2_Witness ==
    \E p \in PipeIds :
        pipes[p].timer = "fired" /\ pipes[p].eosAtTimer = "sent" /\ pipes[p].forced

\* C3 as claimed: the main EOS has been sent to a pipeline stopped while
\* recording only if the detach completion future has resolved.
C3_MainEosAfterDetachResolved ==
    \A p \in StoppedRecording :
        pipes[p].mainEos # "no" => DrainNotified(pipes[p].rec)

\* C3 as amended: once the main EOS has been sent the detach has been
\* triggered (probe installed, branch EOS injected), and the completion
\* closure of Future::sequence has run only if the detach completion future
\* and the promise handed to StopRecord have resolved.
C3_TeardownAfterDetachResolved ==
    \A p \in StoppedRecording :
        LET b == pipes[p].rec
        IN  /\ pipes[p].mainEos # "no"
                 => branches[b].st # "attached" /\ branches[b].eos
            /\ pipes[p].seq \in {"hops", "done"} => branches[b].st = "resolved"

C3_Witness ==
    \E p \in StoppedRecording : pipes[p].seq = "done" /\ pipes[p].mainEos = "resolved"

\* C4: when StopRecord has been processed and StopPipeline follows while the
\* branch is still draining, the main EOS is not sent before the branch's
\* tail EOS has been observed; and after StopPipeline there is neither a
\* pipeline nor a record handle.
C4_DrainBeforeMainEos ==
    /\ \A b \in BranchIds :
         (branches[b].st = "draining" /\ ~branches[b].promise)
            => pipes[branches[b].pipe].mainEos = "no"
    /\ \A p \in PipeIds :
         (pipes[p].stopped /\ pipeline = 0) => record_handle = 0

\* C5: the tail probe is installed whenever the branch EOS has been injected,
\* the elements are in the pipeline as long as the drain is outstanding, and
\* they have left it only after the probe has observed the EOS.
C5_DrainBeforeRemoval ==
    \A b \in BranchIds :
        /\ branches[b].eos => branches[b].probe \in {"installed", "removed"}
        /\ branches[b].st \in {"attached", "draining", "observed"} => branches[b].inPipe
        /\ (branches[b].st # "none" /\ ~branches[b].inPipe) => branches[b].probe = "removed"

C5_Witness ==
    \E b \in BranchIds : branches[b].st = "removed" /\ ~branches[b].inPipe

\* The elements of branch b have been removed by the detach continuation.
DetachDone(b) ==
    branches[b].st \in {"removed", "notified", "resolved"} /\ ~branches[b].inPipe

\* C6: under fair scheduling, once a branch has been detached its detach
\* future eventually resolves and its elements are out of the pipeline
\* (unless the process has panicked meanwhile).
C6_DetachEventuallyRemoves ==
    \A b \in BranchIds :
        (branches[b].st = "draining") ~> (DetachDone(b) \/ crashed # "no")

\* Branches of pipeline p whose tee pad is linked.
LinkedBranches(p) ==
    {b \in BranchIds : branches[b].pipe = p /\ branches[b].st = "attached"}

\* C7: on a pipeline where no attach has failed, tee_source has its initial
\* pad plus one pad per attached branch: every successful attach adds exactly
\* one pad, every detach takes exactly one away, and after attach/detach
\* pairs the count is the initial one again.
C7_TeePadCount ==
    \A p \in Built :
        pipes[p].stray = 0
            => pipes[p].tee = PlayingPipe.tee + Cardinality(LinkedBranches(p))

C7_Witness ==
    \E b \in BranchIds :
        /\ branches[b].st \in {"draining", "observed", "removed"}
        /\ pipes[branches[b].pipe].stray = 0
        /\ pipes[branches[b].pipe].tee = PlayingPipe.tee

\* C8: a record handle exists only while the video model holds a pipeline,
\* and it is a branch of that pipeline.
C8_RecordOnlyWhileRunning ==
    record_handle # 0
        => /\ pipeline # 0
           /\ branches[record_handle].pipe = pipeline
           /\ branches[record_handle].st = "attached"

C8_Witness ==
    \E p \in StoppedRecording : pipeline = 0 /\ record_handle = 0

\* C9: at most one recording branch is attached to a pipeline at any time
\* (a StartRecord that finds a branch attached requests no pad, adds no
\* elements and keeps the handle).
C9_AtMostOneBranch ==
    \A p \in PipeIds : Cardinality(LinkedBranches(p)) <= 1

\* C10: a StopPipeline handled while there is no pipeline, and a
\* StartPipeline handled while there is one, fail their assertion and change
\* nothing else; neither is accepted as a no-op.
C10_RejectedNotIgnored ==
    [][ (crashed = "no" /\ videoQ # <<>> /\ videoQ' = Tail(videoQ))
          => /\ (Head(videoQ) = "StopPipeline" /\ pipeline = 0)
                  => /\ crashed' = "assert_stop"
                     /\ UNCHANGED <<parentQ, videoVars, gstVars>>
             /\ (Head(videoQ) = "StartPipeline" /\ pipeline # 0)
                  => /\ crashed' = "assert_start"
                     /\ UNCHANGED <<parentQ, videoVars, gstVars>>
             /\ (Head(videoQ) = "StopPipeline" /\ pipeline # 0) => crashed' = "no"
             /\ (Head(videoQ) = "StartPipeline" /\ pipeline = 0) => crashed' = "no"
      ]_vars

C10_Witness == crashed = "assert_stop"

----------------------------------------------------------------------------
\* Properties of the Promise/Future cells (FutureSpec, SequenceSpec)

\* Observer o has returned from for_each on cell c.
Registered(o, c) == observers[o].pc = "done" /\ observers[o].cell = c

\* Observer o was pushed on Future::callbacks (it read an unresolved state).
Queued(o, c) == Registered(o, c) /\ observers[o].seen = <<>>

\* Future::success has returned for cell c.
Resolved(c) == futures[c].assigned > 0 /\ dispatching # c

\* C11: the value of a cell is assigned at most once: a Promise sends at most
\* one value (a second success on it is rejected), the state is never
\* assigned again and no observer is called again.
C11_SingleAssignment ==
    /\ \A c \in CellIds : futures[c].sent <= 1 /\ futures[c].assigned <= 1
    /\ \A i \in InputIds : futures[i].state \in {<<>>, <<Value(i)>>}
    /\ \A o \in ObserverIds : observers[o].calls <= 1

C11_Witness ==
    \E i \in InputIds :
        /\ probe[i].entries = 2 /\ probe[i].inside = 0
        /\ crashed = "unwrap_none"
        /\ futures[i].sent = 1 /\ futures[i].state = <<Value(i)>>
        /\ \E o \in ObserverIds : Registered(o, i) /\ observers[o].calls = 1

\* C12: when the probe closure is entered twice before the probe is removed,
\* the Promise is resolved exactly once and the second entry returns without
\* failing.
C12_RacingProbeHarmless ==
    \A i \in InputIds :
        (probe[i].entries >= 2 /\ probe[i].inside = 0)
          => futures[i].sent = 1 /\ crashed = "no"

\* C13: an observer registered with for_each is called exactly once with the
\* resolved value if the cell is resolved, and never otherwise, whether it
\* registered before the resolution (queued) or after it (called at once).
C13_ObserverCalledOnce ==
    \A o \in ObserverIds :
        /\ observers[o].calls <= 1
        /\ observers[o].pc # "done" => observers[o].calls = 0
        /\ \A c \in CellIds :
             Registered(o, c) =>
               /\ observers[o].calls = 1 =>
                    futures[c].state # <<>> /\ observers[o].got = futures[c].state
               /\ Resolved(c) => observers[o].calls = 1

C13_Witness ==
    \E c \in InputIds : \E o1, o2 \in ObserverIds :
        /\ Queued(o1, c) /\ observers[o1].calls = 1
        /\ Registered(o2, c) /\ observers[o2].seen # <<>> /\ observers[o2].calls = 1
        /\ Resolved(c)

\* C14 as stated: when Promise::success has returned, the state holds the
\* value and the list of pending observers is empty.
C14_SuccessResolvesSynchronously ==
    \A c \in CellIds :
        futures[c].sent > 0 => Len(futures[c].state) = 1 /\ futures[c].callbacks = <<>>

\* C14 amended: Promise::success only sends the value to the control loop;
\* when the control loop has dispatched it, the state holds the value, every
\* observer registered before has been called with it and the list of
\* pending observers is empty.
C14_DispatchResolves ==
    \A c \in CellIds :
        Resolved(c) =>
          /\ Len(futures[c].state) = 1
          /\ futures[c].callbacks = <<>>
          /\ \A o \in ObserverIds :
               Queued(o, c) => observers[o].calls = 1 /\ observers[o].got = futures[c].state

C14_Witness ==
    \E i \in InputIds : \E o \in ObserverIds :
        /\ Resolved(i) /\ futures[i].sent = 1
        /\ Queued(o, i) /\ observers[o].got = <<Value(i)>>

\* The values of the first n inputs in input order.
RECURSIVE InputValues(_)
InputValues(n) == IF n = 0 THEN <<>> ELSE Append(InputValues(n - 1), Value(n))

\* C15: the future Future::sequence returns is resolved once, only after all
\* its inputs are, with their values in input order, in whatever order the
\* inputs were resolved.
C15_SequenceInInputOrder ==
    LET r == futures[ResultCell(1)]
    IN  /\ r.assigned <= 1 /\ r.sent <= 1
        /\ Len(r.state) = 1 =>
             /\ r.state[1] = InputValues(seq.n)
             /\ \A k \in 1..seq.n : Len(futures[k].state) = 1

C15_Witness ==
    /\ seq.n = 3
    /\ resolution = <<2, 3, 1>>
    /\ futures[ResultCell(1)].state = << <<Value(1), Value(2), Value(3)>> >>

\* Inputs on which a continuation of the sequence is pending.
Awaited ==
    {i \in InputIds :
        \E j \in 1..Len(futures[i].callbacks) : futures[i].callbacks[j].kind = "flat_map"}

\* C16: Future::sequence pulls the (k+1)-th future only after the k-th has
\* resolved and its value has been pushed, and awaits at most one input at
\* any time.
C16_OneInputAtATime ==
    /\ seq.pulled <= Len(seq.vec) + 1
    /\ Cardinality(Awaited) <= 1
    /\ \A k \in 1..(seq.pulled - 1) :
         Len(futures[k].state) = 1 /\ seq.vec[k] = Value(k)

C16_Witness ==
    /\ seq.n = 3 /\ seq.pulled = 2 /\ Len(seq.vec) = 1
    /\ Awaited = {2}
    /\ Len(futures[3].state) = 1

----------------------------------------------------------------------------
\* Properties of the frame callback (FrameSpec)

\* C17: no Frame is sent to the display channel of a pipeline unless a caps
\* event carrying width and height was processed for that pipeline before.
C17_NoFrameBeforeCaps ==
    \A p \in PipeIds : delivered[p].frames > 0 => delivered[p].caps

C17_Witness ==
    /\ delivered[1].frames > 0
    /\ delivered[2].samples > 0 /\ delivered[2].frames = 0 /\ ~delivered[2].caps

\* C18: a sample that arrives while no dimensions are cached is dropped with
\* the "not negotiated" flow value and no other.
C18_NotNegotiatedWithoutDimensions ==
    \A p \in PipeIds :
        delivered[p].case = "no_dims" => delivered[p].flow = "NotNegotiated"

\* The failures C19 lists, and the flow values that are errors.
FailureCases ==
    {"no_dims", "pull_err", "no_buffer", "map_err", "mat_err", "poisoned", "send_err"}

FlowErrors == {"NotNegotiated", "Flushing", "Eos", "Error", "CustomError"}

\* C19: every failure path of the frame callback returns a flow error, and
\* the callback never panics.
C19_FailuresReturnFlowError ==
    \A p \in PipeIds :
        /\ delivered[p].case \in FailureCases => delivered[p].flow \in FlowErrors
        /\ delivered[p].panics = 0

\* C20: no post-process runs on the delivery thread while the lock of the
\* Config is held.
C20_NoProcessingUnderConfigLock ==
    \A p \in PipeIds : callback[p].pc = "processing" => config.lock # p

----------------------------------------------------------------------------
\* The polling lifecycle as SlaveModel holds it: Some(false) is Idle,
\* Some(true) is Running, None is Starting or Stopping.

\* C23: the polling state changes only between a settled state and the
\* transitional one: it never moves from Running to Idle or from Idle to
\* Running in one step, and a TogglePolling handled in the transitional
\* state sends nothing to the video component.
C23_LifecycleThroughTransitional ==
    [][/\ (polling' # polling => (polling = None \/ polling' = None))
       /\ (ParentHead("TogglePolling") /\ polling = None /\ parentQ' = Tail(parentQ)
             => videoQ' = videoQ)]_vars

\* C27: whenever the controller is Running the video component holds a
\* pipeline, and the assertion of StopPipeline never fails.
C27_RunningHoldsPipeline ==
    /\ crashed # "assert_stop"
    /\ (crashed = "no" /\ polling = SomeTrue) => pipeline # 0

\* C28: whenever the controller is Idle the video component holds no
\* pipeline, and the assertion of StartPipeline never fails.
C28_IdleHoldsNoPipeline ==
    /\ crashed # "assert_start"
    /\ (crashed = "no" /\ polling = SomeFalse) => pipeline = 0

\* C29: no processed StopPipeline reports PollingChanged(false) more than
\* once or sets its pipeline to Null more than once, whichever of the
\* completion closure and the timer closure runs first.
C29_OneIdleOneNull ==
    \A p \in PipeIds : pipes[p].idle <= 1 /\ pipes[p].nulls <= 1

\* C30: a teardown timer that fires after the completion closure of its
\* StopPipeline has run (the recording drain that StopPipeline awaited and
\* the main EOS confirmation are both complete) sends nothing: no timeout
\* warning, no second PollingChanged(false) or RecordingChanged(false).
C30_NoTimeoutAfterCompletion ==
    [][\A p \in PipeIds :
          (pipes[p].seq = "done" /\ pipes[p].timer = "armed" /\ pipes'[p].timer = "fired")
            => (parentQ' = parentQ /\ pipes'[p].toasts = pipes[p].toasts)]_vars

----------------------------------------------------------------------------
\* The pixel rows of a sample buffer of the given size, and of a Mat.
BufferRows(size) ==
    [r \in 1..size[2] |->
        SubSeq(SampleBuffer(size), (r - 1) * RowStride(size[1]) + 1,
               (r - 1) * RowStride(size[1]) + size[1] * ElemSize)]

MatRows(mat) ==
    [r \in 1..mat.height |->
        SubSeq(mat.data, (r - 1) * mat.width * ElemSize + 1, r * mat.width * ElemSize)]

\* C21: a frame forwarded without post-processing has the width, the height
\* and, row by row, the bytes of the sample buffer it was built from.
C21_UnprocessedFrameIsTheSample ==
    \A p \in PipeIds :
        delivered[p].plain # <<>> =>
            LET mat == delivered[p].plain[1]
                size == delivered[p].sample
            IN  /\ mat.width = size[1]
                /\ mat.height = size[2]
                /\ MatRows(mat) = BufferRows(size)

----------------------------------------------------------------------------
\* The builder and the branch

\* C22 as claimed: every change of the topology is made by the control loop
\* and none runs while another is in progress.
C22_AllMutationsOnControlLoop ==
    /\ \A m \in mutation.by : m[2] = "control"
    /\ ~mutation.concurrent

\* C22, amended: the only change of the topology made outside the control
\* loop is the link of the source's new pad, made by the pad-added closure
\* on the source's thread; every add, unlink and remove, the removal after
\* a drain included, and every other link is made by the control loop.
C22_OnlySourcePadLinkedOffLoop ==
    \A m \in mutation.by : m[2] # "control" => m = <<"link", "source">>

C22_Witness ==
    /\ <<"remove", "control">> \in mutation.by
    /\ <<"link", "source">> \in mutation.by
    /\ mutation.concurrent

\* C24: when create_pipeline fails at any step the handler has not called
\* set_state, holds no pipeline afterwards and has sent exactly ErrorMessage
\* followed by PollingChanged(false); the same is sent, and no pipeline is
\* held, when set_state(Playing) fails.
C24_FailedStartRetainsNothing ==
    (created.calls > 0 /\ (created.failed # 0 \/ created.state = "state_err")) =>
        /\ created.failed # 0 => (~created.ok /\ created.state = "none")
        /\ topology = <<>>
        /\ created.sent = <<"ErrorMessage", "PollingChanged(false)">>

C24_Witness ==
    /\ created.failed # 0
    /\ created.graph.links # {}

\* C25: no link, in create_pipeline, in the pad-added closure or in
\* connect_elements_to_pipeline, is made while one of its two elements is
\* outside the pipeline; this holds for the pipelines of failed calls too.
C25_LinkOnlyAddedElements ==
    /\ created.graph.unowned = {}
    /\ topology # <<>> => topology[1].unowned = {}

C25_Witness ==
    /\ topology # <<>>
    /\ attached.handle
    /\ source_thread = "done"
    /\ <<E("tee_source"), RecordElements(1)[1]>> \in topology[1].links

\* The kind of each element create_pipeline makes.
Kind(e) ==
    CASE e[1] = "source" -> "source"
      [] e[1] = "rtpdepay" -> "depacketizer"
      [] e[1] \in {"h265parse", "video_decoder"} -> "decode"
      [] e[1] \in {"tee_source", "tee_decoded"} -> "tee"
      [] e[1] \in {"queue_to_decode", "queue_to_app"} -> "queue"
      [] e[1] = "videoconvert" -> "convert"
      [] e[1] = "display" -> "sink"
      [] OTHER -> "other"

Count(g, kind) == Cardinality({e \in g.elements : Kind(e) = kind})

\* depacketizer -> raw tee -> queue -> decode chain -> decoded tee -> queue
\* -> color-convert -> sink
Chain ==
    << E("rtpdepay"), E("tee_source"), E("queue_to_decode"), E("h265parse"),
       E("video_decoder"), E("tee_decoded"), E("queue_to_app"), E("videoconvert"),
       E("display") >>

\* C26: the pipeline a successful create_pipeline returns has one source,
\* one depacketizer, one decode chain of two elements, two tees, two
\* queues, one converter and one sink and nothing else, and its links are
\* exactly those of the chain.
C26_BuiltGraph ==
    created.ok =>
        LET g == created.graph
        IN  /\ Count(g, "source") = 1 /\ Count(g, "depacketizer") = 1
            /\ Count(g, "decode") = 2 /\ Count(g, "tee") = 2
            /\ Count(g, "queue") = 2 /\ Count(g, "convert") = 1
            /\ Count(g, "sink") = 1 /\ Count(g, "other") = 0
            /\ g.links = {<<Chain[i], Chain[i + 1]>> : i \in 1..(Len(Chain) - 1)}
            /\ g.pad_added

C26_Witness ==
    /\ created.ok
    /\ topology # <<>>
    /\ topology[1] = created.graph


----------------------------------------------------------------------------
\* C31: every ToggleRecord the controller processes leaves recording at the
\* transitional None; under fair scheduling recording becomes Some(true) or
\* Some(false) again.
C31_RecordingEventuallySettled ==
    (recording = None) ~> (recording # None)

\* C32: a StartRecord whose attach fails leaves the pipeline as it was before
\* the call (no branch element in it, the tee's pad count unchanged), leaves
\* record_handle alone and reports ErrorMessage and RecordingChanged(false).
C32_FailedAttachLeavesPipeline ==
    [][(VideoHead("StartRecord") /\ failures' # failures)
          => /\ pipes' = pipes
             /\ record_handle' = record_handle
             /\ parentQ' = parentQ \o <<"ErrorMessage", "RecordingChanged(false)">>]_vars

\* C33: StopRecord's for_each closure (RecordingChanged(false), then success
\* on the promise it was given) has run only for a branch whose elements the
\* map continuation has removed from the pipeline and set to Null; and a
\* branch that StopRecord has detached is no longer the record handle,
\* however far its drain has got.
C33_NotifiedAfterRemoval ==
    \A b \in BranchIds :
        /\ DrainNotified(b) => ~branches[b].inPipe
        /\ branches[b].st \in {"draining", "observed", "removed", "notified", "resolved"}
             => record_handle # b

C33_Witness ==
    \E b \in BranchIds :
        /\ branches[b].st = "resolved" /\ branches[b].promise
        /\ ~branches[b].inPipe
        /\ record_handle = 0

\* C34: the StopPipeline call that finds its pipeline not Playing, or whose
\* main EOS is not accepted, sends PollingChanged(false) and
\* RecordingChanged(false) and sets the pipeline to Null before it returns;
\* no teardown timer is ever armed for that pipeline and no warning toast is
\* ever sent for it.
C34_ImmediateTeardown ==
    [][\A p \in PipeIds :
         /\ (~pipes[p].stopped /\ pipes'[p].stopped
               /\ (pipes[p].st # "playing" \/ pipes'[p].mainEos = "no"))
              => /\ parentQ' = parentQ \o <<"PollingChanged(false)", "RecordingChanged(false)">>
                 /\ pipes'[p].st = "null" /\ pipes'[p].nulls = pipes[p].nulls + 1
                 /\ pipes'[p].mainEos = "no"
         /\ (pipes'[p].stopped /\ pipes'[p].mainEos = "no")
              => /\ pipes'[p].timer = "none"
                 /\ pipes'[p].toasts = 0
                 /\ pipes'[p].seq = "none"]_vars

C34_Witness ==
    \E p \in PipeIds :
        /\ pipes[p].stopped /\ pipes[p].mainEos = "no"
        /\ pipes[p].st = "null" /\ pipes[p].idle = 1 /\ pipes[p].recOff = 1
        /\ pipes[p].timer = "none"

\* C35: the pad-added closure links the depayloader only for a video pad,
\* ignores every other pad, and never fails, however many pads of whatever
\* kind the source adds.
C35_LazyLinkNeverFails ==
    /\ crashed # "pad_added_unwrap"
    /\ topology # <<>> =>
         (<<E("source"), E("rtpdepay")>> \in topology[1].links
             => \E pad \in topology[1].pads : Eligible(pad[1]))

\* C36: under a fair control loop a future made from a plain value
\* eventually holds that value, the future Future::sequence returns for an
\* empty iterator eventually holds the empty vector, and an observer
\* registered on such a future, before or after its resolution, is called
\* with the value once and never a second time.
C36_ValueFutureResolves ==
    /\ \A c \in ValueCells \cap InputIds :
         (futures[c].sent = 1) ~> (futures[c].state = <<Value(c)>>)
    /\ (seq.called /\ seq.n = 0) ~> (futures[ResultCell(1)].state = << <<>> >>)
    /\ \A o \in ObserverIds :
         (observers[o].pc = "done")
            ~> /\ observers[o].cell # 0
               /\ observers[o].calls = 1
               /\ observers[o].got = futures[observers[o].cell].state
    /\ [](\A o \in ObserverIds : observers[o].calls <= 1)

C36_Witness ==
    /\ futures[ResultCell(1)].state = << <<>> >>
    /\ \E c \in ValueCells \cap InputIds : futures[c].state = <<Value(c)>>
    /\ \E o1, o2 \in ObserverIds :
         /\ observers[o1].calls = 1 /\ Len(observers[o1].seen) = 0
         /\ observers[o2].calls = 1 /\ Len(observers[o2].seen) = 1

\* C37: an observer that registers another observer on the same future
\* while it is being called, from for_each on a resolved future or from the
\* pop loop of the resolution, is never stuck in that for_each, and the
\* observer it registers is called exactly once.
C37_NestedRegistrationCompletes ==
    /\ crashed # "relock_panic"
    /\ \A o \in ObserverIds :
         /\ observers[o].pc # "blocked"
         /\ observers[o].inner <= 1
         /\ observers[o].calls = 1 => observers[o].inner = 1

============================================================================
